---- MODULE Spec2Model ----
(***************************************************************************)
(* Model of the DMP interrupt path of the rc_mpu driver (src/src/mpu/mpu.c)*)
(* and of the parts of the I2C adapter (src/src/io/i2c.c) and of the GPIO  *)
(* functions (src/src/io/gpio.c) it runs on.                               *)
(*                                                                         *)
(* The specifications share the variables:                                 *)
(*   SpecFifo  a call of __read_dmp_fifo on FIFO contents drawn from       *)
(*             bounded sets (the parser on its own);                       *)
(*   Spec      the interrupt-handler thread and the user thread (callback  *)
(*             registration, rc_mpu_power_off); SpecWait and SpecTap put a *)
(*             blocking waiter beside the handler, SpecFair schedules the  *)
(*             handler fairly;                                             *)
(*   SpecLife  rc_mpu_initialize_dmp, rc_mpu_initialize, rc_mpu_power_off  *)
(*             and the blocking calls in any order, with the threads made; *)
(*   SpecCal   the two calibration routines beside an initialisation;      *)
(*   SpecBus   the functions of the I2C adapter and the two DMP memory     *)
(*             access functions; SpecLoad the firmware loader;             *)
(*   SpecGpio  the GPIO functions, for one pin;                            *)
(*   SpecSetup rc_mpu_initialize_dmp step by step with its arguments and   *)
(*             the calibration files, and rc_mpu_read_mag; SpecPacket the  *)
(*             same call beside the handler threads earlier calls left;    *)
(*   SpecFusion the yaw fusion of __data_fusion over initialisations and   *)
(*             power-offs;                                                 *)
(*   SpecLock  the handler thread and the two blocking calls on            *)
(*             read_mutex and tap_mutex, with fair scheduling.             *)
(*                                                                         *)
(* Numbers wider than 31 bits are kept as pairs <<hi, lo>> standing for    *)
(* hi * 65536 + lo with lo in 0..65535 (hi carries the sign).              *)
(***************************************************************************)
EXTENDS Integers, Sequences, FiniteSets, TLC

VARIABLES
    long_bits,            \* width of C long in the build: 32 or 64
    char_signed,          \* whether plain char is signed in the build
    packet_len,           \* static int packet_len
    dmp_en,               \* static int dmp_en
    config,               \* the fields of rc_mpu_config_t the handler reads
    data,                 \* *data_ptr, the output record
    fifo_first_run,       \* static first_run of __read_dmp_fifo
    rd,                   \* locals / effects of the last __read_dmp_fifo call
    i2c_lock,             \* i2c[bus].lock
    imu_shutdown_flag,
    thread_running_flag,
    last_read_successful,
    dmp_callback_func,    \* FALSE is NULL
    tap_callback_func,    \* FALSE is NULL
    read_mutex,           \* owner of read_mutex, or "free"
    tap_mutex,            \* owner of tap_mutex, or "free"
    destroyed,            \* the pthread objects rc_mpu_power_off has destroyed
    h_pc,                 \* position of the interrupt-handler thread
    h_first_run,          \* local first_run of __imu_interrupt_handler
    h_mag_div_step,       \* local mag_div_step
    h_tick,               \* number of interrupts serviced so far
    h_mag,                \* sample being stored by the rc_mpu_read_mag in progress
    tick_log,             \* what the handler did in the current / last tick
    w_pc, w_ret, w_tick, w_snap,  \* thread in rc_mpu_block_until_dmp_data, then reading the record
    t_pc, t_ret,          \* thread in rc_mpu_block_until_tap
    p_pc, p_ret,          \* user thread in rc_mpu_power_off
    threads,              \* the threads pthread_create has made so far, oldest first
    pwr,                  \* what the last write to PWR_MGMT_1 left the device in
    l_pc, l_kind, l_ret,  \* user thread in rc_mpu_initialize_dmp / rc_mpu_initialize
    l_fail,               \* why the last initialisation failed, or "none"
    l_who,                \* the byte __check_who_am_i has read, -1 when it read none
    l_n0,                 \* number of threads there were when the call began
    life,                 \* "fresh", "dmp" after a successful rc_mpu_initialize_dmp,
                          \* "off" after a return of rc_mpu_power_off
    c_pc, c_kind, c_ret,  \* user thread in a calibration routine
    c_i,                  \* samples taken by rc_mpu_calibrate_mag_routine
    c_steady,             \* was_last_steady of rc_mpu_calibrate_gyro_routine
    c_noisy,              \* a sampling window of this call was outside a threshold
    c_failed,             \* an I2C or file operation of this call failed
    c_xfer,               \* this call has started an I2C transfer
    c_lock0,              \* i2c[bus].lock when the call began
    c_fit,                \* what rc_algebra_fit_ellipsoid returned, or << >>
    gyro_file, mag_file,  \* the calibration files, << >> as found before the call
    i2c,                  \* i2c[bus] of the adapter: devAddr, file, initialized, and
                          \* the slave address the kernel holds for the open file
    b_op,                 \* the adapter call made last: arguments, what it found, result
    bus_log,              \* the transfers the memory-access call in progress has issued
    fw,                   \* locals of __dmp_load_motion_driver_firmware
    gpio,                 \* value_fd[pin] and init_flag[pin] of gpio.c for the pin
                          \* in use, and whether /sys/class/gpio/gpioN is there
    g_op,                 \* the gpio.c call made last: name, result, and what it
                          \* found in value_fd[pin] and init_flag[pin]
    su,                   \* the call of rc_mpu_initialize_dmp in progress or made
                          \* last: position, result and its cause, the sample rate
                          \* asked for, whether the bus or the pin was touched
    mag_cal,              \* static float mag_offsets[3], mag_scales[3]
    gyro_regs,            \* the six bytes last written to XG_OFFSET_H, or << >>
    mag_rd,               \* the scale factors the last rc_mpu_read_mag multiplied
                          \* by, or << >>
    mr,                   \* st1, raw[6] and return value of the last rc_mpu_read_mag
    fus,                  \* the statics of __data_fusion, the filter pair and the
                          \* yaw it stored in the record
    c_log                 \* what the sampling of the calibration call met: the
                          \* deviations of the window before the last and the
                          \* deviations and means of the last window of the gyro
                          \* routine, why the loop of the magnetometer routine
                          \* ended

vars == << long_bits, char_signed, packet_len, dmp_en, config, data,
           fifo_first_run, rd, i2c_lock, imu_shutdown_flag,
           thread_running_flag, last_read_successful, dmp_callback_func,
           tap_callback_func, read_mutex, tap_mutex, destroyed, h_pc,
           h_first_run, h_mag_div_step, h_tick, h_mag, tick_log,
           w_pc, w_ret, w_tick, w_snap, t_pc, t_ret, p_pc, p_ret,
           threads, pwr, l_pc, l_kind, l_ret, l_fail, l_who, l_n0, life,
           c_pc, c_kind, c_ret, c_i, c_steady, c_noisy, c_failed, c_xfer,
           c_lock0, c_fit, gyro_file, mag_file, i2c, b_op, bus_log, fw,
           gpio, g_op, su, mag_cal, gyro_regs, mag_rd, mr, fus, c_log >>

threadVars == << i2c_lock, imu_shutdown_flag, thread_running_flag,
                 last_read_successful, dmp_callback_func, tap_callback_func,
                 read_mutex, tap_mutex, destroyed, h_pc, h_first_run,
                 h_mag_div_step, h_tick, h_mag, tick_log, w_pc, w_ret, w_tick,
                 w_snap, t_pc, t_ret, p_pc, p_ret >>

buildVars == << long_bits, char_signed, packet_len, dmp_en, config >>

lifeVars == << threads, pwr, l_pc, l_kind, l_ret, l_fail, l_who, l_n0, life >>

calVars == << c_pc, c_kind, c_ret, c_i, c_steady, c_noisy, c_failed, c_xfer,
              c_lock0, c_fit, gyro_file, mag_file >>

lateVars == << mr, fus, c_log >>

setupVars == << gpio, g_op, su, mag_cal, gyro_regs, mag_rd, lateVars >>

ioVars == << i2c, b_op, bus_log, fw, setupVars >>

\* ioVars but c_log
ioRest == << i2c, b_op, bus_log, fw, gpio, g_op, su, mag_cal, gyro_regs, mag_rd,
            mr, fus >>

-----------------------------------------------------------------------------
(* Program constants *)

FIFO_LEN_QUAT_TAP == 20
FIFO_LEN_QUAT_ACCEL_GYRO_TAP == 32
MAX_FIFO_BUFFER == FIFO_LEN_QUAT_ACCEL_GYRO_TAP * 5

\* mpu_defs.h is not among the sources; InvenSense's value of the tap bit
INT_SRC_TAP == 1

\* 1L<<16, 1L<<28 and their difference and sum, as <<hi, lo>> pairs
QUAT_ERROR_THRESH == << 1, 0 >>
QUAT_MAG_SQ_NORMALIZED == << 4096, 0 >>
QUAT_MAG_SQ_MIN == << QUAT_MAG_SQ_NORMALIZED[1] - QUAT_ERROR_THRESH[1], 0 >>
QUAT_MAG_SQ_MAX == << QUAT_MAG_SQ_NORMALIZED[1] + QUAT_ERROR_THRESH[1], 0 >>

-----------------------------------------------------------------------------
(* Bounds of the model *)

MaxFifoPackets == 5     \* most packets the device FIFO holds when it is read
MaxTicks == 2           \* interrupts the handler services in one run

-----------------------------------------------------------------------------
(* Integer helpers *)

\* a < b for <<hi, lo>> pairs
PairLess(a, b) == a[1] < b[1] \/ (a[1] = b[1] /\ a[2] < b[2])

\* a + b for <<hi, lo>> pairs
PairAdd(a, b) ==
    LET lo == a[2] + b[2]
    IN  << a[1] + b[1] + (lo \div 65536), lo % 65536 >>

\* x * x for -65536 < x < 65536, as a pair
Square(x) ==
    LET a  == IF x < 0 THEN -x ELSE x
        ah == a \div 256
        al == a % 256
        t  == ah * al * 512 + al * al
    IN  << ah * ah + (t \div 65536), t % 65536 >>

\* a value of C type long computed without regard to width, as the build keeps it
WrapLong(p) ==
    IF long_bits = 32
    THEN LET h == p[1] % 65536
         IN  << IF h >= 32768 THEN h - 65536 ELSE h, p[2] >>
    ELSE p

\* (int16_t) of a 16-bit pattern
ToInt16(u) == IF u >= 32768 THEN u - 65536 ELSE u

\* the byte at C index k of a buffer
At(raw, k) == raw[k + 1]

-----------------------------------------------------------------------------
(* I2C adapter, src/src/io/i2c.c *)

\* rc_i2c_read_words for one word: the two bytes on the wire pass through a
\* char buffer, so the low byte is sign-extended where char is signed
ReadWordValue(h, l) ==
    IF char_signed /\ l >= 128 THEN 65280 + l ELSE (h % 256) * 256 + l

\* what rc_i2c_read_bytes returns for a request of fifo_count bytes (its length
\* parameter is a uint8_t); outcome is what the bus does with the transfer
ReadBytesRet(fifo_count, outcome) ==
    LET length == fifo_count % 256
    IN  CASE outcome = "ok"    -> length
          [] outcome = "short" -> IF length > 0 THEN length - 1 ELSE 0
          [] OTHER             -> -1

-----------------------------------------------------------------------------
(* __read_dmp_fifo, src/src/mpu/mpu.c *)

\* the if/else chain on fifo_count: the offset i of the packet to parse
ClassifyMut(fifo_count) ==
    IF fifo_count = 0 THEN [kind |-> "empty", i |-> 0]
    ELSE IF fifo_count = packet_len THEN [kind |-> "packets", i |-> 0]
    ELSE IF fifo_count = 2 * packet_len THEN [kind |-> "packets", i |-> packet_len]
    ELSE IF fifo_count = 3 * packet_len THEN [kind |-> "packets", i |-> 2 * packet_len]
    ELSE IF fifo_count = 4 * packet_len THEN [kind |-> "packets", i |-> 2 * packet_len]
    ELSE IF fifo_count = 5 * packet_len THEN [kind |-> "packets", i |-> 2 * packet_len]
    ELSE IF fifo_count = 6 * packet_len THEN [kind |-> "packets", i |-> 2 * packet_len]
    ELSE [kind |-> "weird", i |-> 0]

Classify(fifo_count) ==
    IF fifo_count = 0 THEN [kind |-> "empty", i |-> 0]
    ELSE IF fifo_count = packet_len THEN [kind |-> "packets", i |-> 0]
    ELSE IF fifo_count = 2 * packet_len THEN [kind |-> "packets", i |-> packet_len]
    ELSE IF fifo_count = 3 * packet_len THEN [kind |-> "packets", i |-> 2 * packet_len]
    ELSE IF fifo_count = 4 * packet_len THEN [kind |-> "packets", i |-> 2 * packet_len]
    ELSE IF fifo_count = 5 * packet_len THEN [kind |-> "packets", i |-> 2 * packet_len]
    ELSE [kind |-> "weird", i |-> 0]

\* ((long)b0 << 24) | ((long)b1 << 16) | ((long)b2 << 8) | b3, as <<hi, lo>>.
\* A 32-bit long takes the top bit as its sign (gcc defines the shift into the
\* sign bit that way); a 64-bit long stays non-negative.
ParseLong(b0, b1, b2, b3) ==
    LET h == b0 * 256 + b1
    IN  << IF long_bits = 32 /\ h >= 32768 THEN h - 65536 ELSE h, b2 * 256 + b3 >>

\* quat[0..3] read at offset i
ParseQuat(raw, i) ==
    [j \in 1..4 |-> ParseLong(At(raw, i + 4 * (j - 1)), At(raw, i + 4 * (j - 1) + 1),
                              At(raw, i + 4 * (j - 1) + 2), At(raw, i + 4 * (j - 1) + 3))]

\* quat[j] >> 16
QuatQ14(quat) == [j \in 1..4 |-> quat[j][1]]

\* quat_mag_sq, a long
QuatMagSq(q14) ==
    WrapLong(PairAdd(PairAdd(Square(q14[1]), Square(q14[2])),
                     PairAdd(Square(q14[3]), Square(q14[4]))))

QuatOutOfBoundsMut(m) ==
    ~PairLess(QUAT_MAG_SQ_MIN, m) \/ ~PairLess(m, QUAT_MAG_SQ_MAX)

\* (quat_mag_sq < QUAT_MAG_SQ_MIN) || (quat_mag_sq > QUAT_MAG_SQ_MAX)
QuatOutOfBounds(m) ==
    PairLess(m, QUAT_MAG_SQ_MIN) \/ PairLess(QUAT_MAG_SQ_MAX, m)

\* (int16_t)((hi << 8) | lo) for three consecutive big-endian words at offset i
ParseTriple(raw, i) ==
    [j \in 1..3 |-> ToInt16(At(raw, i + 2 * (j - 1)) * 256 + At(raw, i + 2 * (j - 1) + 1))]

\* raw[i+1] & INT_SRC_TAP
TapSourceSet(b) == (b \div INT_SRC_TAP) % 2 = 1

\* tap = 0x3F & raw[i+3]
TapByte(b) == b % 64

\* the record as __read_dmp_fifo leaves it after a packet at offset i passed
\* the magnitude check.  dmp_quat holds quat[] itself for its normalisation
\* (float)(quat[j]/|quat|), dmp_TaitBryan the quaternion it was derived from,
\* raw_accel/raw_gyro also stand for accel[]/gyro[] (the same numbers times a
\* constant), fused for what __data_fusion makes of the quaternion and mag[].
StoreRecord(d, raw, i, quat) ==
    LET j  == i + 16
        g  == IF packet_len = FIFO_LEN_QUAT_ACCEL_GYRO_TAP THEN j + 12 ELSE j
        d1 == [d EXCEPT !.dmp_quat = quat, !.dmp_TaitBryan = << "tb", quat >>]
        d2 == IF packet_len = FIFO_LEN_QUAT_ACCEL_GYRO_TAP
              THEN [d1 EXCEPT !.raw_accel = ParseTriple(raw, j),
                              !.raw_gyro = ParseTriple(raw, j + 6)]
              ELSE d1
        d3 == IF TapSourceSet(At(raw, g + 1))
              THEN [d2 EXCEPT !.last_tap_direction = TapByte(At(raw, g + 3)) \div 8,
                              !.tap_detected = 1]
              ELSE [d2 EXCEPT !.tap_detected = 0]
    IN  IF config.enable_magnetometer
        THEN [d3 EXCEPT !.fused = << quat, d.mag >>]
        ELSE d3

\* The whole call on record d with static first_run fr.  inp is what the bus
\* delivers: cnt_ok (the FIFO_COUNTH read succeeds), cH and cL (the two count
\* bytes), rd1 and rd2 (outcome of the bulk read and of its retry), bytes (the
\* FIFO contents).  The result holds the return value, the record, first_run,
\* and what the call did: fifo_count (-1: never read), raw (<<>>: never
\* filled), the offset i, bulk reads issued, __mpu_reset_fifo calls.
ReadDmpFifo(d, fr, inp) ==
    LET out(ret, dd, f, cnt, raw, i, bulk, resets) ==
            [ret |-> ret, data |-> dd, first_run |-> f, fifo_count |-> cnt,
             raw |-> raw, i |-> i, bulk |-> bulk, resets |-> resets]
        fifo_count == ReadWordValue(inp.cH, inp.cL)
        cls   == Classify(fifo_count)
        ret1  == ReadBytesRet(fifo_count, inp.rd1)
        bulk  == IF ret1 < 0 THEN 2 ELSE 1
        ret2  == IF ret1 < 0 THEN ReadBytesRet(fifo_count, inp.rd2) ELSE ret1
        raw   == [k \in 1..MAX_FIFO_BUFFER |->
                    IF k <= Len(inp.bytes) /\ k <= ret2 THEN inp.bytes[k] ELSE 0]
        quat  == ParseQuat(raw, cls.i)
    IN  IF dmp_en = 0 THEN out(-1, d, fr, -1, << >>, 0, 0, 0)
        ELSE IF packet_len # FIFO_LEN_QUAT_ACCEL_GYRO_TAP /\ packet_len # FIFO_LEN_QUAT_TAP
             THEN out(-1, d, fr, -1, << >>, 0, 0, 0)
        ELSE IF ~inp.cnt_ok THEN out(-1, d, fr, -1, << >>, 0, 0, 0)
        ELSE IF cls.kind = "empty" THEN out(-1, d, fr, fifo_count, << >>, 0, 0, 0)
        ELSE IF cls.kind = "weird" THEN out(-1, d, fr, fifo_count, << >>, 0, 0, 1)
        ELSE IF ret2 # fifo_count THEN out(-1, d, fr, fifo_count, raw, cls.i, bulk, 0)
        ELSE IF QuatOutOfBounds(QuatMagSq(QuatQ14(quat)))
             THEN out(-1, d, fr, fifo_count, raw, cls.i, bulk, 1)
        ELSE out(0, StoreRecord(d, raw, cls.i, quat), 0, fifo_count, raw, cls.i, bulk, 0)

-----------------------------------------------------------------------------
(* FIFO contents the model feeds to the parser *)

\* a 16-bit word as two bytes, big-endian
WordBytes(w) == << w \div 256, w % 256 >>

\* a quaternion given as four <<high word, low word>> bit patterns, as 16 bytes
QuatBytes(q) ==
    WordBytes(q[1][1]) \o WordBytes(q[1][2]) \o WordBytes(q[2][1]) \o WordBytes(q[2][2]) \o
    WordBytes(q[3][1]) \o WordBytes(q[3][2]) \o WordBytes(q[4][1]) \o WordBytes(q[4][2])

\* three 16-bit patterns as 6 bytes
TripleBytes(t) == WordBytes(t[1]) \o WordBytes(t[2]) \o WordBytes(t[3])

\* Q30 quaternions: 1, (1/2, 1/2, 1/2, 1/2), (1/2, -1/2, 1/2, -1/2)
QId   == << <<16384, 0>>, <<0, 0>>, <<0, 0>>, <<0, 0>> >>
QHalf == << <<8192, 4660>>, <<8192, 0>>, <<8192, 1>>, <<8192, 65535>> >>
QNeg  == << <<8192, 0>>, <<57344, 0>>, <<8192, 0>>, <<57344, 0>> >>
\* Q14 magnitude squared exactly 2^28 + 2^16 and exactly 2^28 - 2^16
QMaxEdge == << <<16384, 0>>, <<256, 0>>, <<0, 0>>, <<0, 0>> >>
QMinEdge == << <<16128, 0>>, <<2816, 0>>, <<512, 0>>, <<256, 0>> >>
\* just above and just below, all zero, and 2^32 (0 in a 32-bit long)
QOver  == << <<16384, 0>>, <<257, 0>>, <<0, 0>>, <<0, 0>> >>
QUnder == << <<16128, 0>>, <<2816, 0>>, <<512, 0>>, <<255, 65535>> >>
QZero  == << <<0, 0>>, <<0, 0>>, <<0, 0>>, <<0, 0>> >>
QWrap  == << <<32768, 0>>, <<32768, 0>>, <<32768, 0>>, <<32768, 0>> >>

QuatSet == { QId, QHalf, QNeg, QMaxEdge, QMinEdge, QOver, QUnder, QZero, QWrap }

\* a FIFO packet: quaternion, accel and gyro triples when the packet has them,
\* and the 4-byte gesture tail
Packet(q, accel, gyro, gest) ==
    QuatBytes(q) \o
    (IF packet_len = FIFO_LEN_QUAT_ACCEL_GYRO_TAP
     THEN TripleBytes(accel) \o TripleBytes(gyro) ELSE << >>) \o
    gest

PktA == Packet(QId, << 1, 32768, 32767 >>, << 65535, 256, 0 >>, << 0, 0, 0, 0 >>)
PktB == Packet(QHalf, << 16384, 0, 49152 >>, << 2, 3, 65280 >>, << 0, 1, 0, 217 >>)
PktC == Packet(QNeg, << 7, 8, 9 >>, << 10, 11, 12 >>, << 255, 3, 0, 42 >>)
PktD == Packet(QId, << 1, 32768, 32767 >>, << 65535, 256, 0 >>, << 0, 254, 0, 63 >>)

RECURSIVE Flatten(_)
Flatten(ss) == IF ss = << >> THEN << >> ELSE Head(ss) \o Flatten(Tail(ss))

BusInput(cnt_ok, count, rd1, rd2, bytes) ==
    [cnt_ok |-> cnt_ok, cH |-> count \div 256, cL |-> count % 256,
     rd1 |-> rd1, rd2 |-> rd2, bytes |-> bytes]

\* k whole packets, the bus working
WholePackets(pkts) ==
    UNION { { BusInput(TRUE, k * packet_len, "ok", "ok", Flatten(ps)) :
                ps \in [1..k -> pkts] } : k \in 1..MaxFifoPackets }

\* one packet with each quaternion of QuatSet, after one packet or alone
EdgeQuats ==
    { BusInput(TRUE, packet_len, "ok", "ok",
               Packet(q, << 1, 2, 3 >>, << 4, 5, 6 >>, << 0, 1, 0, 9 >>)) : q \in QuatSet }

\* byte counts that are no whole number of packets (or too many), and 0
OddCounts ==
    { BusInput(TRUE, c, "ok", "ok", << >>) :
        c \in { 0, 1, packet_len - 1, packet_len + 1, 2 * packet_len + 4,
                (MaxFifoPackets + 1) * packet_len, 256 + packet_len, 1024 } }

\* the bus failing: the count read, the bulk read once or twice, a short read
BusFaults ==
    { BusInput(FALSE, packet_len, "ok", "ok", PktB) } \cup
    { BusInput(TRUE, packet_len, o[1], o[2], PktB) :
        o \in { << "err", "ok" >>, << "err", "err" >>, << "short", "ok" >>,
                << "err", "short" >> } }

FifoInputs == WholePackets({ PktA, PktB, PktC }) \cup
              { BusInput(TRUE, packet_len, "ok", "ok", PktD) } \cup
              EdgeQuats \cup OddCounts \cup BusFaults

\* what the handler's reads meet: one packet without and with a tap, two
\* packets, four packets (the third without a tap, the last with one), an
\* empty FIFO, a count that is no whole number of packets, a failed count read
IrqInputs == { BusInput(TRUE, packet_len, "ok", "ok", p) : p \in { PktA, PktB } } \cup
             { BusInput(TRUE, 2 * packet_len, "ok", "ok", PktB \o PktA),
               BusInput(TRUE, 4 * packet_len, "ok", "ok", PktA \o PktA \o PktA \o PktB),
               BusInput(TRUE, 0, "ok", "ok", << >>),
               BusInput(TRUE, packet_len + 1, "ok", "ok", << >>),
               BusInput(FALSE, packet_len, "ok", "ok", PktB) }

-----------------------------------------------------------------------------
(* Initial states *)

\* the record after rc_mpu_initialize_dmp: the caller's zeroed struct
InitData ==
    [dmp_quat |-> QZero, dmp_TaitBryan |-> << "tb", QZero >>,
     raw_accel |-> << 0, 0, 0 >>, raw_gyro |-> << 0, 0, 0 >>,
     tap_detected |-> 0, last_tap_direction |-> 0,
     mag |-> << 0, 0, 0 >>, fused |-> << >>]

NoRead ==
    [called |-> FALSE, inp |-> BusInput(TRUE, 0, "ok", "ok", << >>), before |-> InitData,
     ret |-> 0, fifo_count |-> -1, raw |-> << >>, i |-> 0, bulk |-> 0, resets |-> 0]

\* the result of a call, with its input, as rd keeps it
ReadResult(inp, d, r) ==
    [called |-> TRUE, inp |-> inp, before |-> d, ret |-> r.ret, fifo_count |-> r.fifo_count,
     raw |-> r.raw, i |-> r.i, bulk |-> r.bulk, resets |-> r.resets]

InitBuild ==
    /\ long_bits \in { 32, 64 }
    /\ char_signed \in BOOLEAN
    /\ packet_len \in { FIFO_LEN_QUAT_TAP, FIFO_LEN_QUAT_ACCEL_GYRO_TAP }
    /\ dmp_en = 1

\* no call of an initialisation function in progress
InitLifeVars(l, p) ==
    /\ threads = << >>
    /\ pwr = p
    /\ l_pc = "idle" /\ l_kind = "none" /\ l_ret = 0
    /\ l_fail = "none"
    /\ l_who = -1
    /\ l_n0 = 0
    /\ life = l

\* no call of a calibration routine made yet
InitCalVars ==
    /\ c_pc = "idle" /\ c_kind = "none" /\ c_ret = 0
    /\ c_i = 0
    /\ c_steady = 1
    /\ c_noisy = FALSE
    /\ c_failed = FALSE
    /\ c_xfer = FALSE
    /\ c_lock0 = 0
    /\ c_fit = << >>
    /\ gyro_file = << >>
    /\ mag_file = << >>

\* a pin that is not exported: no directory in sysfs and so no direction
\* and no edge, value_fd[pin] and init_flag[pin] zero
NoPin ==
    [sysfs |-> FALSE, dir |-> "none", edge |-> "none", value_fd |-> "zero",
     init_flag |-> 0]

\* the floats 0.0 and 1.0 as fractions << numerator, denominator >>
FZero == << 0, 1 >>

FOne == << 1, 1 >>

\* no call of rc_mpu_initialize_dmp made by the part modelled in detail
SuIdle == [pc |-> "idle", ret |-> 0, rate |-> 0, io |-> FALSE, fail |-> "none"]

\* no call of rc_mpu_read_mag made by the part modelled in detail; -1 stands
\* for a byte that was not read
MrNone == [ret |-> 0, st1 |-> -1, st2 |-> -1]

\* no sampling done by a calibration call
NoLog == [prev |-> << >>, last |-> << << >>, << >> >>, stop |-> "none"]

\* float NaN, a number outside every range the model uses
NaN == 9999

\* the statics of __data_fusion as the program starts (mpu.c:2174-2179), the
\* filter pair of mpu.c:89 not yet made (<< >>), the two headings of the
\* caller's zeroed record; newYaw is the sum of the filter outputs of the
\* last tick before it was reduced, ret the last return value (1: no tick
\* yet), fresh says that rc_mpu_initialize_dmp has returned 0 and no tick has
\* got past the NaN test since, ticks counts the ticks of the run
FusInit ==
    [first_run |-> 1, newMagYaw |-> 0, newDMPYaw |-> 0, mag_spin_counter |-> 0,
     dmp_spin_counter |-> 0, low_pass |-> << >>, high_pass |-> << >>,
     compass_heading_raw |-> 0, compass_heading |-> 0, newYaw |-> 0,
     ret |-> 1, fresh |-> FALSE, ticks |-> 0]

\* no adapter call made by the part modelled in detail: static rc_i2c_t
\* i2c[], all zero, no file open and so no slave address held by the kernel
\* (-1), no firmware load begun
InitIoVars ==
    /\ i2c = [devAddr |-> 0, file |-> "none", initialized |-> 0, kaddr |-> -1]
    /\ b_op = [fn |-> "none", addr |-> 0, cache0 |-> 0, lock0 |-> 0,
               ioctl |-> "none", ret |-> 0]
    /\ bus_log = << >>
    /\ fw = [pc |-> "idle", ii |-> 0, ret |-> 0, cur |-> "none"]
    /\ gpio = NoPin
    /\ g_op = [fn |-> "none", ret |-> 0, fd0 |-> "zero", init0 |-> 0]
    /\ su = SuIdle
    /\ mag_cal = [offsets |-> << 0, 0, 0 >>, scales |-> << FZero, FZero, FZero >>]
    /\ gyro_regs = << >>
    /\ mag_rd = << >>
    /\ mr = MrNone
    /\ fus = FusInit
    /\ c_log = NoLog

\* state right after a successful rc_mpu_initialize_dmp
InitThreads ==
    /\ i2c_lock = 0
    /\ imu_shutdown_flag = 0
    /\ thread_running_flag = 1
    /\ last_read_successful = 0
    /\ dmp_callback_func = FALSE
    /\ tap_callback_func = FALSE
    /\ read_mutex = "free"
    /\ tap_mutex = "free"
    /\ destroyed = FALSE
    /\ h_pc = "start"
    /\ h_first_run = 1
    /\ h_mag_div_step = config.mag_sample_rate_div
    /\ h_tick = 0
    /\ h_mag = << >>
    /\ tick_log = << >>
    /\ w_pc = "idle" /\ w_ret = 0 /\ w_tick = 0 /\ w_snap = << >>
    /\ t_pc = "idle" /\ t_ret = 0
    /\ p_pc = "idle" /\ p_ret = 0
    /\ InitLifeVars("dmp", "awake")
    /\ InitCalVars
    /\ InitIoVars

\* records earlier calls leave behind: none yet, PktB published, PktC published
PriorReads ==
    { [data |-> InitData, first_run |-> 1] } \cup
    { [data |-> ReadDmpFifo(InitData, 1, BusInput(TRUE, packet_len, "ok", "ok", p)).data,
       first_run |-> ReadDmpFifo(InitData, 1, BusInput(TRUE, packet_len, "ok", "ok", p)).first_run] :
        p \in { PktB, PktC } }

\* an initialised driver, some earlier reads done, and the FIFO contents the
\* next read will meet waiting in rd.inp
InitFifo ==
    /\ InitBuild
    /\ config \in [enable_magnetometer : BOOLEAN, read_mag_after_callback : { TRUE },
                   mag_sample_rate_div : { 1 }]
    /\ \E prior \in PriorReads :
         /\ data = prior.data
         /\ fifo_first_run = prior.first_run
    /\ \E inp \in FifoInputs : rd = [NoRead EXCEPT !.inp = inp]
    /\ InitThreads

-----------------------------------------------------------------------------
(* SpecFifo: one call of the parser on each input *)

ReadFifoCall ==
    /\ ~rd.called
    /\ LET r == ReadDmpFifo(data, fifo_first_run, rd.inp)
       IN  /\ data' = r.data
           /\ fifo_first_run' = r.first_run
           /\ rd' = ReadResult(rd.inp, data, r)
    /\ UNCHANGED << ioVars, buildVars, lifeVars, calVars, threadVars >>

NextFifo == ReadFifoCall

SpecFifo == InitFifo /\ [][NextFifo]_vars

-----------------------------------------------------------------------------
(* Spec: the interrupt-handler thread, src/src/mpu/mpu.c 1759-1872 *)

fifoVars  == << data, fifo_first_run, rd >>
hVars     == << h_pc, h_first_run, h_mag_div_step, h_tick, h_mag, tick_log >>
wVars     == << w_pc, w_ret, w_tick, w_snap >>
tVars     == << t_pc, t_ret >>
pVars     == << p_pc, p_ret >>
flagVars  == << imu_shutdown_flag, thread_running_flag, last_read_successful >>
cbVars    == << dmp_callback_func, tap_callback_func >>
syncVars  == << read_mutex, tap_mutex, destroyed >>

\* pthread_mutex_lock by thread who: it returns once the mutex is free and
\* taken.  On a destroyed mutex (undefined) it either works as before or
\* fails at once and takes nothing.
LockOutcomes(m, who) ==
    (IF m = "free" THEN { who } ELSE { }) \cup (IF destroyed THEN { m } ELSE { })

UnlockedMut(m, who) == m

\* pthread_mutex_unlock by thread who
Unlocked(m, who) == IF m = who THEN "free" ELSE m

\* pthread_cond_broadcast reaches the waiters; on a destroyed condition
\* variable (undefined) it may also reach none
BroadcastOutcomes == IF destroyed THEN BOOLEAN ELSE { TRUE }

Log(e) == tick_log' = Append(tick_log, e)

\* rc_gpio_get_value_fd fails: the thread returns at once
HStartFail ==
    /\ h_pc = "start"
    /\ h_pc' = "done"
    /\ UNCHANGED << ioVars, buildVars, lifeVars, calVars, fifoVars, i2c_lock, flagVars, cbVars, syncVars,
                    h_first_run, h_mag_div_step, h_tick, h_mag, tick_log,
                    wVars, tVars, pVars >>

\* the descriptor is there: __mpu_reset_fifo, whose register writes leave
\* the bus lock as it was, or set when one of them fails
HStart ==
    /\ h_pc = "start"
    /\ \E ok \in BOOLEAN : i2c_lock' = IF ok THEN i2c_lock ELSE 1
    /\ h_pc' = "loop"
    /\ UNCHANGED << ioVars, buildVars, lifeVars, calVars, fifoVars, flagVars, cbVars, syncVars,
                    h_first_run, h_mag_div_step, h_tick, h_mag, tick_log,
                    wVars, tVars, pVars >>

\* while(imu_shutdown_flag!=1)
HLoop ==
    /\ h_pc = "loop"
    /\ h_pc' = IF imu_shutdown_flag # 1 THEN "poll" ELSE "x_lock"
    /\ UNCHANGED << ioVars, buildVars, lifeVars, calVars, fifoVars, i2c_lock, flagVars, cbVars, syncVars,
                    h_first_run, h_mag_div_step, h_tick, h_mag, tick_log,
                    wVars, tVars, pVars >>

\* poll returns on a falling edge
HPollEdge ==
    /\ h_pc = "poll"
    /\ h_tick < MaxTicks
    /\ h_pc' = "chk_pri"
    /\ UNCHANGED << ioVars, buildVars, lifeVars, calVars, fifoVars, i2c_lock, flagVars, cbVars, syncVars,
                    h_first_run, h_mag_div_step, h_tick, h_mag, tick_log,
                    wVars, tVars, pVars >>

\* poll returns after IMU_POLL_TIMEOUT
HPollTimeout ==
    /\ h_pc = "poll"
    /\ h_pc' = "chk_to"
    /\ UNCHANGED << ioVars, buildVars, lifeVars, calVars, fifoVars, i2c_lock, flagVars, cbVars, syncVars,
                    h_first_run, h_mag_div_step, h_tick, h_mag, tick_log,
                    wVars, tVars, pVars >>

BreakOnShutdownMut(flag) == FALSE

\* if(imu_shutdown_flag==1) break;
BreakOnShutdown(flag) == flag = 1

\* if(imu_shutdown_flag==1) break; else if (revents & POLLPRI) ...
HCheck ==
    /\ h_pc \in { "chk_pri", "chk_to" }
    /\ h_pc' = IF BreakOnShutdown(imu_shutdown_flag) THEN "x_lock"
               ELSE IF h_pc = "chk_pri" THEN "svc" ELSE "loop"
    /\ UNCHANGED << ioVars, buildVars, lifeVars, calVars, fifoVars, i2c_lock, flagVars, cbVars, syncVars,
                    h_first_run, h_mag_div_step, h_tick, h_mag, tick_log,
                    wVars, tVars, pVars >>

\* interrupt received: timestamp, rc_i2c_lock_bus
HLockBus ==
    /\ h_pc = "svc"
    /\ h_tick' = h_tick + 1
    /\ i2c_lock' = 1
    /\ tick_log' = << "lock_bus" >>
    /\ h_pc' = "lock_read"
    /\ UNCHANGED << ioVars, buildVars, lifeVars, calVars, fifoVars, flagVars, cbVars, syncVars,
                    h_first_run, h_mag_div_step, h_mag, wVars, tVars, pVars >>

HLockRead ==
    /\ h_pc = "lock_read"
    /\ \E m \in LockOutcomes(read_mutex, "h") : read_mutex' = m
    /\ h_pc' = "lock_tap"
    /\ UNCHANGED << ioVars, buildVars, lifeVars, calVars, fifoVars, i2c_lock, flagVars, cbVars, tap_mutex,
                    destroyed, h_first_run, h_mag_div_step, h_tick, h_mag,
                    tick_log, wVars, tVars, pVars >>

HLockTap ==
    /\ h_pc = "lock_tap"
    /\ \E m \in LockOutcomes(tap_mutex, "h") : tap_mutex' = m
    /\ h_pc' = "read"
    /\ UNCHANGED << ioVars, buildVars, lifeVars, calVars, fifoVars, i2c_lock, flagVars, cbVars, read_mutex,
                    destroyed, h_first_run, h_mag_div_step, h_tick, h_mag,
                    tick_log, wVars, tVars, pVars >>

\* what rc_i2c_unlock_bus right after __read_dmp_fifo leaves in the lock
UnlockAfterFifo(l) == 0

\* ret = __read_dmp_fifo(data_ptr); rc_i2c_unlock_bus; last_read_successful
HRead ==
    /\ h_pc = "read"
    /\ \E inp \in IrqInputs :
         LET r == ReadDmpFifo(data, fifo_first_run, inp)
         IN  /\ data' = r.data
             /\ fifo_first_run' = r.first_run
             /\ rd' = ReadResult(inp, data, r)
             /\ last_read_successful' = IF r.ret = 0 THEN 1 ELSE 0
    /\ i2c_lock' = UnlockAfterFifo(i2c_lock)
    /\ Log("read")
    /\ h_pc' = "mag_before"
    /\ UNCHANGED << ioVars, buildVars, lifeVars, calVars, imu_shutdown_flag, thread_running_flag, cbVars,
                    syncVars, h_first_run, h_mag_div_step, h_tick, h_mag,
                    wVars, tVars, pVars >>

MagDueMut(step, div) == TRUE

\* if(mag_div_step>=config.mag_sample_rate_div)
MagDue(step, div) == step >= div

\* if(config.enable_magnetometer && !config.read_mag_after_callback)
HMagBefore ==
    /\ h_pc = "mag_before"
    /\ IF config.enable_magnetometer /\ ~config.read_mag_after_callback
       THEN IF MagDue(h_mag_div_step, config.mag_sample_rate_div)
            THEN h_pc' = "magb_io" /\ UNCHANGED h_mag_div_step
            ELSE h_pc' = "unlock_bus2" /\ h_mag_div_step' = h_mag_div_step + 1
       ELSE h_pc' = "unlock_bus2" /\ UNCHANGED h_mag_div_step
    /\ UNCHANGED << ioVars, buildVars, lifeVars, calVars, fifoVars, i2c_lock, flagVars, cbVars, syncVars,
                    h_first_run, h_tick, h_mag, tick_log, wVars, tVars, pVars >>

\* rc_mpu_read_mag up to the sample: the ST1 read and the 7-byte read.  A
\* transfer whose write() fails leaves the bus lock set; otherwise each
\* transfer puts the lock back as it found it.
HMagIo ==
    /\ h_pc \in { "magb_io", "maga_io" }
    /\ \E o \in { "fail", "notready", "saturated", "sample" } :
         /\ i2c_lock' = IF o = "fail" THEN 1 ELSE i2c_lock
         /\ IF o = "sample"
            THEN /\ h_mag' = << h_tick, h_tick, h_tick >>
                 /\ h_pc' = IF h_pc = "magb_io" THEN "magb_w1" ELSE "maga_w1"
            ELSE /\ h_mag' = << >>
                 /\ h_pc' = IF h_pc = "magb_io" THEN "magb_end" ELSE "maga_end"
    /\ Log("mag_read")
    /\ UNCHANGED << ioVars, buildVars, lifeVars, calVars, fifoVars, flagVars, cbVars, syncVars,
                    h_first_run, h_mag_div_step, h_tick, wVars, tVars, pVars >>

\* data->mag[k] = ..., one component at a time
HMagStore ==
    /\ h_pc \in { "magb_w1", "magb_w2", "magb_w3", "maga_w1", "maga_w2", "maga_w3" }
    /\ LET k == CASE h_pc \in { "magb_w1", "maga_w1" } -> 1
                  [] h_pc \in { "magb_w2", "maga_w2" } -> 2
                  [] OTHER -> 3
       IN  data' = [data EXCEPT !.mag[k] = h_mag[k]]
    /\ h_pc' = CASE h_pc = "magb_w1" -> "magb_w2"
                 [] h_pc = "magb_w2" -> "magb_w3"
                 [] h_pc = "magb_w3" -> "magb_end"
                 [] h_pc = "maga_w1" -> "maga_w2"
                 [] h_pc = "maga_w2" -> "maga_w3"
                 [] OTHER -> "maga_end"
    /\ UNCHANGED << ioVars, buildVars, lifeVars, calVars, fifo_first_run, rd, i2c_lock, flagVars, cbVars,
                    syncVars, h_first_run, h_mag_div_step, h_tick, h_mag,
                    tick_log, wVars, tVars, pVars >>

\* after the read before the callback: mag_div_step=1
HMagBeforeEnd ==
    /\ h_pc = "magb_end"
    /\ h_mag_div_step' = 1
    /\ h_pc' = "unlock_bus2"
    /\ UNCHANGED << ioVars, buildVars, lifeVars, calVars, fifoVars, i2c_lock, flagVars, cbVars, syncVars,
                    h_first_run, h_tick, h_mag, tick_log, wVars, tVars, pVars >>

\* "releases bus": the second rc_i2c_unlock_bus
HUnlockBus ==
    /\ h_pc = "unlock_bus2"
    /\ i2c_lock' = 0
    /\ Log("unlock_bus")
    /\ h_pc' = "cb_gate"
    /\ UNCHANGED << ioVars, buildVars, lifeVars, calVars, fifoVars, flagVars, cbVars, syncVars,
                    h_first_run, h_mag_div_step, h_tick, h_mag, wVars, tVars, pVars >>

\* the first serviced interrupt calls nothing
SuppressFirstMut(first_run) == FALSE

SuppressFirst(first_run) == first_run = 1

\* else if(last_read_successful)
CallbackDueMut(read_ok) == TRUE

CallbackDue(read_ok) == read_ok # 0

\* if(first_run == 1) first_run = 0; else if(last_read_successful) ...
HGate ==
    /\ h_pc = "cb_gate"
    /\ IF SuppressFirst(h_first_run)
       THEN h_first_run' = 0 /\ h_pc' = "unlock_read"
       ELSE /\ UNCHANGED h_first_run
            /\ h_pc' = IF CallbackDue(last_read_successful) THEN "cb_data"
                       ELSE "unlock_read"
    /\ UNCHANGED << ioVars, buildVars, lifeVars, calVars, fifoVars, i2c_lock, flagVars, cbVars, syncVars,
                    h_mag_div_step, h_tick, h_mag, tick_log, wVars, tVars, pVars >>

\* if(dmp_callback_func!=NULL) dmp_callback_func();
HDataCallback ==
    /\ h_pc = "cb_data"
    /\ Log(IF dmp_callback_func THEN "dmp_cb" ELSE "dmp_null")
    /\ h_pc' = "bc_read"
    /\ UNCHANGED << ioVars, buildVars, lifeVars, calVars, fifoVars, i2c_lock, flagVars, cbVars, syncVars,
                    h_first_run, h_mag_div_step, h_tick, h_mag, wVars, tVars, pVars >>

\* the step after the read broadcast
AfterReadBroadcastMut(tap_detected) == "cb_tap"

AfterReadBroadcast(tap_detected) == IF tap_detected # 0 THEN "cb_tap" ELSE "unlock_read"

\* pthread_cond_broadcast(&read_condition); if(data_ptr->tap_detected) ...
HBroadcastRead ==
    /\ h_pc = "bc_read"
    /\ \E reach \in BroadcastOutcomes :
         IF reach /\ w_pc = "wait"
         THEN w_pc' = "woken" /\ w_tick' = h_tick
         ELSE UNCHANGED << w_pc, w_tick >>
    /\ Log("read_bc")
    /\ h_pc' = AfterReadBroadcast(data.tap_detected)
    /\ UNCHANGED << ioVars, buildVars, lifeVars, calVars, fifoVars, i2c_lock, flagVars, cbVars, syncVars,
                    h_first_run, h_mag_div_step, h_tick, h_mag, w_ret, w_snap,
                    tVars, pVars >>

\* if(tap_callback_func!=NULL) tap_callback_func(data_ptr->last_tap_direction);
HTapCallback ==
    /\ h_pc = "cb_tap"
    /\ Log(IF tap_callback_func THEN "tap_cb" ELSE "tap_null")
    /\ h_pc' = "bc_tap"
    /\ UNCHANGED << ioVars, buildVars, lifeVars, calVars, fifoVars, i2c_lock, flagVars, cbVars, syncVars,
                    h_first_run, h_mag_div_step, h_tick, h_mag, wVars, tVars, pVars >>

\* pthread_cond_broadcast(&tap_condition);
HBroadcastTap ==
    /\ h_pc = "bc_tap"
    /\ \E reach \in BroadcastOutcomes :
         IF reach /\ t_pc = "wait" THEN t_pc' = "woken" ELSE UNCHANGED t_pc
    /\ Log("tap_bc")
    /\ h_pc' = "unlock_read"
    /\ UNCHANGED << ioVars, buildVars, lifeVars, calVars, fifoVars, i2c_lock, flagVars, cbVars, syncVars,
                    h_first_run, h_mag_div_step, h_tick, h_mag, wVars, t_ret, pVars >>

HUnlockRead ==
    /\ h_pc = "unlock_read"
    /\ read_mutex' = Unlocked(read_mutex, "h")
    /\ h_pc' = "unlock_tap"
    /\ UNCHANGED << ioVars, buildVars, lifeVars, calVars, fifoVars, i2c_lock, flagVars, cbVars, tap_mutex,
                    destroyed, h_first_run, h_mag_div_step, h_tick, h_mag,
                    tick_log, wVars, tVars, pVars >>

HUnlockTap ==
    /\ h_pc = "unlock_tap"
    /\ tap_mutex' = Unlocked(tap_mutex, "h")
    /\ h_pc' = "mag_after"
    /\ UNCHANGED << ioVars, buildVars, lifeVars, calVars, fifoVars, i2c_lock, flagVars, cbVars, read_mutex,
                    destroyed, h_first_run, h_mag_div_step, h_tick, h_mag,
                    tick_log, wVars, tVars, pVars >>

\* if(config.enable_magnetometer && config.read_mag_after_callback): the
\* divider, and rc_i2c_lock_bus when the read is due
HMagAfter ==
    /\ h_pc = "mag_after"
    /\ IF config.enable_magnetometer /\ config.read_mag_after_callback
       THEN IF MagDue(h_mag_div_step, config.mag_sample_rate_div)
            THEN /\ h_pc' = "maga_io"
                 /\ i2c_lock' = 1
                 /\ Log("lock_bus")
                 /\ UNCHANGED h_mag_div_step
            ELSE /\ h_pc' = "loop"
                 /\ h_mag_div_step' = h_mag_div_step + 1
                 /\ UNCHANGED << i2c_lock, tick_log >>
       ELSE h_pc' = "loop" /\ UNCHANGED << h_mag_div_step, i2c_lock, tick_log >>
    /\ UNCHANGED << ioVars, buildVars, lifeVars, calVars, fifoVars, flagVars, cbVars, syncVars,
                    h_first_run, h_tick, h_mag, wVars, tVars, pVars >>

\* rc_i2c_unlock_bus; mag_div_step=1
HMagAfterEnd ==
    /\ h_pc = "maga_end"
    /\ i2c_lock' = 0
    /\ Log("unlock_bus")
    /\ h_mag_div_step' = 1
    /\ h_pc' = "loop"
    /\ UNCHANGED << ioVars, buildVars, lifeVars, calVars, fifoVars, flagVars, cbVars, syncVars,
                    h_first_run, h_tick, h_mag, wVars, tVars, pVars >>

\* after the loop: pthread_mutex_lock( &read_mutex )
HExitLock ==
    /\ h_pc = "x_lock"
    /\ \E m \in LockOutcomes(read_mutex, "h") : read_mutex' = m
    /\ h_pc' = "x_bc"
    /\ UNCHANGED << ioVars, buildVars, lifeVars, calVars, fifoVars, i2c_lock, flagVars, cbVars, tap_mutex,
                    destroyed, h_first_run, h_mag_div_step, h_tick, h_mag,
                    tick_log, wVars, tVars, pVars >>

\* pthread_cond_broadcast( &read_condition )
HExitBroadcast ==
    /\ h_pc = "x_bc"
    /\ \E reach \in BroadcastOutcomes :
         IF reach /\ w_pc = "wait"
         THEN w_pc' = "woken" /\ w_tick' = 0
         ELSE UNCHANGED << w_pc, w_tick >>
    /\ h_pc' = "x_unlock"
    /\ UNCHANGED << ioVars, buildVars, lifeVars, calVars, fifoVars, i2c_lock, flagVars, cbVars, syncVars,
                    h_first_run, h_mag_div_step, h_tick, h_mag, tick_log,
                    w_ret, w_snap, tVars, pVars >>

HExitUnlock ==
    /\ h_pc = "x_unlock"
    /\ read_mutex' = Unlocked(read_mutex, "h")
    /\ h_pc' = "x_flag"
    /\ UNCHANGED << ioVars, buildVars, lifeVars, calVars, fifoVars, i2c_lock, flagVars, cbVars, tap_mutex,
                    destroyed, h_first_run, h_mag_div_step, h_tick, h_mag,
                    tick_log, wVars, tVars, pVars >>

\* thread_running_flag = 0; return 0;
HExitFlag ==
    /\ h_pc = "x_flag"
    /\ thread_running_flag' = 0
    /\ h_pc' = "done"
    /\ UNCHANGED << ioVars, buildVars, lifeVars, calVars, fifoVars, i2c_lock, imu_shutdown_flag,
                    last_read_successful, cbVars, syncVars, h_first_run,
                    h_mag_div_step, h_tick, h_mag, tick_log, wVars, tVars, pVars >>

Handler ==
    \/ HStartFail \/ HStart \/ HLoop \/ HPollEdge \/ HPollTimeout \/ HCheck
    \/ HLockBus \/ HLockRead \/ HLockTap \/ HRead \/ HMagBefore \/ HMagIo
    \/ HMagStore \/ HMagBeforeEnd \/ HUnlockBus \/ HGate \/ HDataCallback
    \/ HBroadcastRead \/ HTapCallback \/ HBroadcastTap \/ HUnlockRead
    \/ HUnlockTap \/ HMagAfter \/ HMagAfterEnd \/ HExitLock \/ HExitBroadcast
    \/ HExitUnlock \/ HExitFlag

-----------------------------------------------------------------------------
(* Spec: the user's threads, src/src/mpu/mpu.c 2978-3016, 1879-1897, 703-745 *)

\* rc_mpu_block_until_dmp_data is called
WCall ==
    /\ w_pc \in { "idle", "ret", "seen" }
    /\ w_pc' = "chk_sd"
    /\ w_ret' = 0 /\ w_tick' = 0 /\ w_snap' = << >>
    /\ UNCHANGED << ioVars, buildVars, lifeVars, calVars, fifoVars, i2c_lock, flagVars, cbVars, syncVars,
                    hVars, tVars, pVars >>

ShutDownMut(flag) == FALSE

\* if(imu_shutdown_flag!=0)
ShutDown(flag) == flag # 0

\* if(imu_shutdown_flag!=0) return -1;
WCheckShutdown ==
    /\ w_pc = "chk_sd"
    /\ IF ShutDown(imu_shutdown_flag)
       THEN w_pc' = "ret" /\ w_ret' = -1
       ELSE w_pc' = "chk_run" /\ UNCHANGED w_ret
    /\ UNCHANGED << ioVars, buildVars, lifeVars, calVars, fifoVars, i2c_lock, flagVars, cbVars, syncVars,
                    hVars, w_tick, w_snap, tVars, pVars >>

\* if(!thread_running_flag) return -1;
WCheckRunning ==
    /\ w_pc = "chk_run"
    /\ IF thread_running_flag = 0
       THEN w_pc' = "ret" /\ w_ret' = -1
       ELSE w_pc' = "lock" /\ UNCHANGED w_ret
    /\ UNCHANGED << ioVars, buildVars, lifeVars, calVars, fifoVars, i2c_lock, flagVars, cbVars, syncVars,
                    hVars, w_tick, w_snap, tVars, pVars >>

\* pthread_mutex_lock(&read_mutex);
WLock ==
    /\ w_pc = "lock"
    /\ \E m \in LockOutcomes(read_mutex, "w") : read_mutex' = m
    /\ w_pc' = "wait_enter"
    /\ UNCHANGED << ioVars, buildVars, lifeVars, calVars, fifoVars, i2c_lock, flagVars, cbVars, tap_mutex,
                    destroyed, hVars, w_ret, w_tick, w_snap, tVars, pVars >>

\* pthread_cond_wait(&read_condition, &read_mutex): the mutex is released
\* and the thread blocks in one step.  With the pair destroyed (undefined)
\* the call may also return at once.
WWait ==
    /\ w_pc = "wait_enter"
    /\ \E blocks \in (IF destroyed THEN BOOLEAN ELSE { TRUE }) :
         IF blocks
         THEN w_pc' = "wait" /\ read_mutex' = Unlocked(read_mutex, "w")
         ELSE w_pc' = "unlock" /\ UNCHANGED read_mutex
    /\ UNCHANGED << ioVars, buildVars, lifeVars, calVars, fifoVars, i2c_lock, flagVars, cbVars, tap_mutex,
                    destroyed, hVars, w_ret, w_tick, w_snap, tVars, pVars >>

\* a broadcast has come: pthread_cond_wait takes the mutex again and returns
WWake ==
    /\ w_pc = "woken"
    /\ \E m \in LockOutcomes(read_mutex, "w") : read_mutex' = m
    /\ w_pc' = "unlock"
    /\ UNCHANGED << ioVars, buildVars, lifeVars, calVars, fifoVars, i2c_lock, flagVars, cbVars, tap_mutex,
                    destroyed, hVars, w_ret, w_tick, w_snap, tVars, pVars >>

\* pthread_mutex_unlock(&read_mutex);
WUnlock ==
    /\ w_pc = "unlock"
    /\ read_mutex' = Unlocked(read_mutex, "w")
    /\ w_pc' = "chk_ret"
    /\ UNCHANGED << ioVars, buildVars, lifeVars, calVars, fifoVars, i2c_lock, flagVars, cbVars, tap_mutex,
                    destroyed, hVars, w_ret, w_tick, w_snap, tVars, pVars >>

\* if(imu_shutdown_flag) return 1; return 0;
WReturn ==
    /\ w_pc = "chk_ret"
    /\ w_ret' = IF imu_shutdown_flag # 0 THEN 1 ELSE 0
    /\ w_pc' = "ret"
    /\ UNCHANGED << ioVars, buildVars, lifeVars, calVars, fifoVars, i2c_lock, flagVars, cbVars, syncVars,
                    hVars, w_tick, w_snap, tVars, pVars >>

\* told of new data, the consumer reads the magnetometer fields of the record
WReadRecord ==
    /\ w_pc = "ret"
    /\ w_ret = 0
    /\ w_snap' = data.mag
    /\ w_pc' = "seen"
    /\ UNCHANGED << ioVars, buildVars, lifeVars, calVars, fifoVars, i2c_lock, flagVars, cbVars, syncVars,
                    hVars, w_ret, w_tick, tVars, pVars >>

Waiter ==
    \/ WCall \/ WCheckShutdown \/ WCheckRunning \/ WLock \/ WWait \/ WWake
    \/ WUnlock \/ WReturn \/ WReadRecord

\* rc_mpu_block_until_tap is called
TCall ==
    /\ t_pc \in { "idle", "ret" }
    /\ t_pc' = "chk_sd"
    /\ t_ret' = 0
    /\ UNCHANGED << ioVars, buildVars, lifeVars, calVars, fifoVars, i2c_lock, flagVars, cbVars, syncVars,
                    hVars, wVars, pVars >>

TCheckShutdown ==
    /\ t_pc = "chk_sd"
    /\ IF ShutDown(imu_shutdown_flag)
       THEN t_pc' = "ret" /\ t_ret' = -1
       ELSE t_pc' = "chk_run" /\ UNCHANGED t_ret
    /\ UNCHANGED << ioVars, buildVars, lifeVars, calVars, fifoVars, i2c_lock, flagVars, cbVars, syncVars,
                    hVars, wVars, pVars >>

TCheckRunning ==
    /\ t_pc = "chk_run"
    /\ IF thread_running_flag = 0
       THEN t_pc' = "ret" /\ t_ret' = -1
       ELSE t_pc' = "lock" /\ UNCHANGED t_ret
    /\ UNCHANGED << ioVars, buildVars, lifeVars, calVars, fifoVars, i2c_lock, flagVars, cbVars, syncVars,
                    hVars, wVars, pVars >>

\* pthread_mutex_lock(&tap_mutex);
TLock ==
    /\ t_pc = "lock"
    /\ \E m \in LockOutcomes(tap_mutex, "t") : tap_mutex' = m
    /\ t_pc' = "wait_enter"
    /\ UNCHANGED << ioVars, buildVars, lifeVars, calVars, fifoVars, i2c_lock, flagVars, cbVars, read_mutex,
                    destroyed, hVars, wVars, t_ret, pVars >>

\* pthread_cond_wait(&tap_condition, &tap_mutex);
TWait ==
    /\ t_pc = "wait_enter"
    /\ \E blocks \in (IF destroyed THEN BOOLEAN ELSE { TRUE }) :
         IF blocks
         THEN t_pc' = "wait" /\ tap_mutex' = Unlocked(tap_mutex, "t")
         ELSE t_pc' = "unlock" /\ UNCHANGED tap_mutex
    /\ UNCHANGED << ioVars, buildVars, lifeVars, calVars, fifoVars, i2c_lock, flagVars, cbVars, read_mutex,
                    destroyed, hVars, wVars, t_ret, pVars >>

TWake ==
    /\ t_pc = "woken"
    /\ \E m \in LockOutcomes(tap_mutex, "t") : tap_mutex' = m
    /\ t_pc' = "unlock"
    /\ UNCHANGED << ioVars, buildVars, lifeVars, calVars, fifoVars, i2c_lock, flagVars, cbVars, read_mutex,
                    destroyed, hVars, wVars, t_ret, pVars >>

TUnlock ==
    /\ t_pc = "unlock"
    /\ tap_mutex' = Unlocked(tap_mutex, "t")
    /\ t_pc' = "chk_ret"
    /\ UNCHANGED << ioVars, buildVars, lifeVars, calVars, fifoVars, i2c_lock, flagVars, cbVars, read_mutex,
                    destroyed, hVars, wVars, t_ret, pVars >>

TReturn ==
    /\ t_pc = "chk_ret"
    /\ t_ret' = IF imu_shutdown_flag # 0 THEN 1 ELSE 0
    /\ t_pc' = "ret"
    /\ UNCHANGED << ioVars, buildVars, lifeVars, calVars, fifoVars, i2c_lock, flagVars, cbVars, syncVars,
                    hVars, wVars, pVars >>

TapWaiter ==
    \/ TCall \/ TCheckShutdown \/ TCheckRunning \/ TLock \/ TWait \/ TWake
    \/ TUnlock \/ TReturn

\* rc_mpu_set_dmp_callback with a function
SetDmpCallback ==
    /\ ~dmp_callback_func
    /\ dmp_callback_func' = TRUE
    /\ UNCHANGED << ioVars, buildVars, lifeVars, calVars, fifoVars, i2c_lock, flagVars, tap_callback_func,
                    syncVars, hVars, wVars, tVars, pVars >>

\* rc_mpu_set_tap_callback with a function
SetTapCallback ==
    /\ ~tap_callback_func
    /\ tap_callback_func' = TRUE
    /\ UNCHANGED << ioVars, buildVars, lifeVars, calVars, fifoVars, i2c_lock, flagVars, dmp_callback_func,
                    syncVars, hVars, wVars, tVars, pVars >>

\* rc_mpu_power_off: imu_shutdown_flag = 1;
PSetFlag ==
    /\ p_pc = "idle"
    /\ imu_shutdown_flag' = 1
    /\ p_pc' = "w_reset"
    /\ UNCHANGED << ioVars, buildVars, lifeVars, calVars, fifoVars, i2c_lock, thread_running_flag,
                    last_read_successful, cbVars, syncVars, hVars, wVars, tVars,
                    p_ret >>

\* the H_RESET write, then the MPU_SLEEP write, each tried twice.  A failed
\* rc_i2c_write_byte leaves the bus lock set.
PWrite ==
    /\ p_pc \in { "w_reset", "w_sleep" }
    /\ \E o \in { "ok", "fail_ok", "fail_fail" } :
         /\ i2c_lock' = IF o = "ok" THEN i2c_lock ELSE 1
         /\ IF o = "fail_fail"
            THEN p_pc' = "ret" /\ p_ret' = -1 /\ UNCHANGED pwr
            ELSE /\ p_pc' = IF p_pc = "w_reset" THEN "w_sleep" ELSE "chk_run"
                 /\ pwr' = IF p_pc = "w_reset" THEN "reset" ELSE "sleep"
                 /\ UNCHANGED p_ret
    /\ UNCHANGED << ioVars, buildVars, threads, l_pc, l_kind, l_ret, l_fail, l_who, l_n0,
                    life, calVars, fifoVars, flagVars, cbVars, syncVars, hVars,
                    wVars, tVars >>

\* if(thread_running_flag){ ... } return 0;
PCheckRunning ==
    /\ p_pc = "chk_run"
    /\ IF thread_running_flag # 0
       THEN p_pc' = "join" /\ UNCHANGED p_ret
       ELSE p_pc' = "ret" /\ p_ret' = 0
    /\ UNCHANGED << ioVars, buildVars, lifeVars, calVars, fifoVars, i2c_lock, flagVars, cbVars, syncVars,
                    hVars, wVars, tVars >>

\* pthread_timedjoin_np returns because the thread has finished
PJoin ==
    /\ p_pc = "join"
    /\ h_pc = "done"
    /\ p_pc' = "destroy"
    /\ UNCHANGED << ioVars, buildVars, lifeVars, calVars, fifoVars, i2c_lock, flagVars, cbVars, syncVars,
                    hVars, wVars, tVars, p_ret >>

\* pthread_timedjoin_np returns ETIMEDOUT after a second
PJoinTimeout ==
    /\ p_pc = "join"
    /\ h_pc # "done"
    /\ p_pc' = "destroy"
    /\ UNCHANGED << ioVars, buildVars, lifeVars, calVars, fifoVars, i2c_lock, flagVars, cbVars, syncVars,
                    hVars, wVars, tVars, p_ret >>

\* the two condition variables and the two mutexes are destroyed; return 0
PDestroy ==
    /\ p_pc = "destroy"
    /\ destroyed' = TRUE
    /\ p_pc' = "ret"
    /\ p_ret' = 0
    /\ UNCHANGED << ioVars, buildVars, lifeVars, calVars, fifoVars, i2c_lock, flagVars, cbVars, read_mutex,
                    tap_mutex, hVars, wVars, tVars >>

\* the driver after rc_mpu_initialize_dmp on the target build with the
\* default packet (quaternion and tap): handler thread created, no callback
Init ==
    /\ long_bits = 32
    /\ char_signed = FALSE
    /\ packet_len = FIFO_LEN_QUAT_TAP
    /\ dmp_en = 1
    /\ config \in [enable_magnetometer : { FALSE }, read_mag_after_callback : { TRUE },
                   mag_sample_rate_div : { 1 }] \cup
                  [enable_magnetometer : { TRUE }, read_mag_after_callback : BOOLEAN,
                   mag_sample_rate_div : { 1, 2 }]
    /\ data = InitData
    /\ fifo_first_run = 1
    /\ rd = NoRead
    /\ InitThreads

PowerOff == PSetFlag \/ PWrite \/ PCheckRunning \/ PJoin \/ PJoinTimeout \/ PDestroy

User == SetDmpCallback \/ SetTapCallback \/ PowerOff

\* the handler thread and a user thread that registers callbacks and
\* powers the device off
Next == Handler \/ User

Spec == Init /\ [][Next]_vars

\* the handler thread, a consumer thread in rc_mpu_block_until_dmp_data and
\* a thread that powers the device off
NextWait == Handler \/ Waiter \/ PowerOff

SpecWait == Init /\ [][NextWait]_vars

\* the handler thread, a thread in rc_mpu_block_until_tap and a thread
\* that powers the device off
NextTap == Handler \/ TapWaiter \/ PowerOff

SpecTap == Init /\ [][NextTap]_vars

-----------------------------------------------------------------------------
(* Claims about the parser, checked under SpecFifo *)

\* the FIFO byte count as the device sent it
WireCount(inp) == inp.cH * 256 + inp.cL

\* the FIFO contents as they lie in the read buffer
Buffered(inp) ==
    [k \in 1..MAX_FIFO_BUFFER |-> IF k <= Len(inp.bytes) THEN inp.bytes[k] ELSE 0]

\* the bulk read delivered the bytes, at once or on the retry
BulkReadWorked(inp) == inp.rd1 = "ok" \/ (inp.rd1 = "err" /\ inp.rd2 = "ok")

\* the quaternion of the packet at offset off passes the driver's check
ValidQuatAt(inp, off) ==
    ~QuatOutOfBounds(QuatMagSq(QuatQ14(ParseQuat(Buffered(inp), off))))

\* C1: for k in 1..5 packets of valid quaternions in the FIFO and a working
\* bus, the call returns 0 and the record is what storing the k-th (last)
\* packet, and no other, makes of the record before the call.
C1_LastPacketPublished ==
    \A k \in 1..5 :
        ( /\ rd.called
          /\ rd.inp.cnt_ok
          /\ rd.inp.rd1 = "ok"
          /\ WireCount(rd.inp) = k * packet_len
          /\ Len(rd.inp.bytes) = k * packet_len
          /\ \A j \in 0..(k - 1) : ValidQuatAt(rd.inp, j * packet_len) )
        => /\ rd.ret = 0
           /\ data = StoreRecord(rd.before, Buffered(rd.inp), (k - 1) * packet_len,
                                 ParseQuat(Buffered(rd.inp), (k - 1) * packet_len))

\* the 16-bit value left of a 32-bit big-endian value by a shift right of 16,
\* signed where the build's long has 32 bits
ShiftedComponent(raw, off, j) ==
    LET h == At(raw, off + 4 * (j - 1)) * 256 + At(raw, off + 4 * (j - 1) + 1)
    IN  IF long_bits = 32 /\ h >= 32768 THEN h - 65536 ELSE h

\* the sum of the four squares, not reduced to any width
ExactMagSq(raw, off) ==
    PairAdd(PairAdd(Square(ShiftedComponent(raw, off, 1)), Square(ShiftedComponent(raw, off, 2))),
            PairAdd(Square(ShiftedComponent(raw, off, 3)), Square(ShiftedComponent(raw, off, 4))))

\* 2^28 - 2^16 <= p <= 2^28 + 2^16, for a pair p
InQuatInterval(p) == p[1] = 4095 \/ p[1] = 4096 \/ (p[1] = 4097 /\ p[2] = 0)

\* the call got as far as a selected packet: a count accepted, the bytes read
PacketSelected ==
    /\ rd.called
    /\ rd.inp.cnt_ok
    /\ \E k \in 1..5 : rd.fifo_count = k * packet_len
    /\ BulkReadWorked(rd.inp)

C3_OddCountResets ==
    ( /\ rd.called
      /\ rd.inp.cnt_ok
      /\ WireCount(rd.inp) # 0
      /\ \A k \in 1..5 : WireCount(rd.inp) # k * packet_len )
    => /\ rd.ret = -1
       /\ rd.resets = 1
       /\ rd.bulk = 0
       /\ data = rd.before

\* an odd count met a record that an earlier read had filled
C3_Witness ==
    /\ rd.called
    /\ rd.inp.cnt_ok
    /\ WireCount(rd.inp) = packet_len + 1
    /\ rd.resets = 1
    /\ data # InitData

-----------------------------------------------------------------------------
(* Claims about the threads, checked under Spec, SpecWait and SpecTap *)

\* the interrupt thread has left its loop, made its exit broadcast and
\* cleared thread_running_flag after rc_mpu_power_off set the shutdown flag,
\* and nothing has been destroyed yet: from here on nothing broadcasts
HandlerExited ==
    /\ h_pc = "done"
    /\ thread_running_flag = 0
    /\ imu_shutdown_flag = 1
    /\ ~destroyed

\* C4: a thread blocked in rc_mpu_block_until_tap is woken when the device
\* is shut down: the broadcast the handler makes on leaving its loop on the
\* shutdown flag (its last; it then returns) wakes a thread that is blocked
\* on the tap condition.
C4_TapWaiterWoken ==
    [][ (h_pc = "x_bc" /\ h_pc' = "x_unlock" /\ t_pc = "wait" /\ ~destroyed)
            => t_pc' = "woken" ]_vars

\* C5: no lost wake-up in rc_mpu_block_until_dmp_data: once the handler has
\* exited on the shutdown flag and made its broadcast, no caller is left
\* blocked on the read condition, whatever the order of the caller's flag
\* checks and wait and the handler's broadcast.
C5_NoLostWakeup == HandlerExited => w_pc # "wait"

LogHas(e) == \E k \in 1..Len(tick_log) : tick_log[k] = e

\* a callback called or a condition variable broadcast
IsSignal(e) == e \in { "dmp_cb", "tap_cb", "read_bc", "tap_bc" }

\* the same, and the callback steps that found no function registered
IsAnnounce(e) == e \in { "dmp_cb", "dmp_null", "read_bc", "tap_cb", "tap_null", "tap_bc" }

IsBusEvent(e) == e \in { "lock_bus", "unlock_bus" }

Signals == SelectSeq(tick_log, IsSignal)

Announced == SelectSeq(tick_log, IsAnnounce)

BusEvents == SelectSeq(tick_log, IsBusEvent)

\* C6: during the first interrupt the handler services, no callback is
\* called and no condition variable is broadcast.
C6_FirstTickSilent == h_tick = 1 => Signals = << >>

\* the first interrupt, read with success, a tap in the packet and both
\* callbacks registered, has gone past the callback section
C6_Witness ==
    /\ h_tick = 1
    /\ h_pc = "unlock_read"
    /\ LogHas("read") /\ rd.ret = 0
    /\ data.tap_detected = 1
    /\ dmp_callback_func /\ tap_callback_func

\* the handler is between two interrupts
BetweenTicks == h_pc \in { "loop", "poll", "chk_pri", "chk_to", "svc" }

Exiting == h_pc \in { "x_lock", "x_bc", "x_unlock", "x_flag", "done" }

\* the FIFO read of the interrupt being serviced, or last serviced, failed
FailedTick == h_tick >= 1 /\ LogHas("read") /\ rd.ret # 0

\* C7: on a serviced interrupt whose FIFO read fails, the handler calls no
\* callback and broadcasts nothing, ends the tick with both mutexes released
\* and its last act on the bus lock a release (the lock reads 0 unless
\* rc_mpu_power_off is using the bus), and leaves the loop only on shutdown.
C7_FailedTickDropped ==
    FailedTick =>
        /\ Signals = << >>
        /\ h_pc \notin { "cb_data", "bc_read", "cb_tap", "bc_tap" }
        /\ BetweenTicks =>
               /\ read_mutex # "h" /\ tap_mutex # "h"
               /\ BusEvents # << >> /\ BusEvents[Len(BusEvents)] = "unlock_bus"
               /\ p_pc = "idle" => i2c_lock = 0
        /\ imu_shutdown_flag = 0 => ~Exiting

\* the second interrupt, a callback registered, the read failed, and the
\* handler is polling again
C7_Witness ==
    /\ FailedTick
    /\ h_tick = 2
    /\ dmp_callback_func
    /\ h_pc = "poll"

\* the handler is past the callback section of the interrupt it serviced
PastCallbacks ==
    \/ h_pc \in { "unlock_read", "unlock_tap", "mag_after", "maga_io", "maga_w1",
                  "maga_w2", "maga_w3", "maga_end" }
    \/ BetweenTicks
    \/ Exiting

\* an interrupt after the first, its FIFO read a success
GoodTick == h_tick >= 2 /\ LogHas("read") /\ rd.ret = 0

\* the tap-source bit of the packet that read parsed: the second of the
\* four gesture bytes that end the packet at offset rd.i
TickTap == TapSourceSet(At(rd.raw, rd.i + packet_len - 3))

CallbackOrder ==
    (GoodTick /\ PastCallbacks) =>
        /\ Len(Announced) = IF TickTap THEN 4 ELSE 2
        /\ Announced[1] \in { "dmp_cb", "dmp_null" }
        /\ Announced[2] = "read_bc"
        /\ TickTap => /\ Announced[3] \in { "tap_cb", "tap_null" }
                      /\ Announced[4] = "tap_bc"

\* a callback step calls the function that is registered
CallbackCalled ==
    /\ (h_pc = "cb_data" /\ h_pc' = "bc_read" /\ dmp_callback_func)
           => tick_log' = Append(tick_log, "dmp_cb")
    /\ (h_pc = "cb_tap" /\ h_pc' = "bc_tap" /\ tap_callback_func)
           => tick_log' = Append(tick_log, "tap_cb")

\* C8: on every interrupt after the first whose read succeeds, the data
\* callback step runs exactly once (calling the registered function) and the
\* read condition is broadcast next; the tap callback step and the tap
\* broadcast follow exactly when the parsed packet has the tap-source bit set.
C8_CallbackOrder == [] CallbackOrder /\ [][CallbackCalled]_vars

\* a second interrupt with a tap packet and both callbacks registered: data
\* callback, read broadcast, tap callback, tap broadcast
C8_Witness ==
    /\ GoodTick /\ PastCallbacks
    /\ TickTap
    /\ Announced = << "dmp_cb", "read_bc", "tap_cb", "tap_bc" >>

\* C9: with read_mag_after_callback, a consumer released by the broadcast of
\* interrupt n and then reading the record sees in no magnetometer field the
\* sample the handler stores after that interrupt's callback.
C9_MagUpdateHidden ==
    (w_pc = "seen" /\ config.enable_magnetometer /\ config.read_mag_after_callback)
        => \A k \in 1..3 : w_snap[k] # w_tick

\* the handler is inside its read cycle: from the bus lock taken before the
\* FIFO count read to the end of the magnetometer read done before the callback
InReadCycle ==
    h_pc \in { "lock_read", "lock_tap", "read", "magb_io", "magb_w1", "magb_w2",
               "magb_w3", "magb_end" }

\* C10: the bus lock stays set through the handler's whole read cycle, the
\* magnetometer read before the callback included.
C10_BusLockHeld == InReadCycle => i2c_lock = 1

-----------------------------------------------------------------------------
(* rc_mpu_power_off and the end of the handler thread *)

\* C12: a call of rc_mpu_power_off made while the handler thread is alive
\* does not return before the thread has terminated or the timed join has
\* given up (after which the synchronisation objects are destroyed).
C12_PowerOffWaitsForThread ==
    p_pc = "ret" => (h_pc = "done" \/ destroyed)

\* the handler thread scheduled fairly: poll returns, on an edge or on its
\* timeout, and every call the thread makes returns
NextFair == Handler \/ PowerOff

SpecFair == Init /\ [][NextFair]_vars /\ WF_vars(Handler)

\* positions of the handler between two ticks, before the shutdown test
\* that follows poll
LoopHead == { "loop", "poll", "chk_pri", "chk_to" }

\* the handler goes from the head of its loop to the code after the loop
\* without servicing an interrupt
LeavesLoop ==
    (imu_shutdown_flag = 1 /\ h_pc \in LoopHead)
        => /\ h_pc' \in { h_pc } \cup (IF h_pc = "poll" THEN { "chk_pri", "chk_to" }
                                                          ELSE { "x_lock" })
           /\ rd' = rd
           /\ h_tick' = h_tick

\* C13: with the shutdown flag set, the handler leaves its loop at the next
\* return of poll without another FIFO read, and the thread ends, a GPIO
\* edge arriving or not.
C13_ShutdownEndsThread ==
    /\ [][LeavesLoop]_vars
    /\ (imu_shutdown_flag = 1) ~> (h_pc = "done")

\* the flag was set while the handler waited in poll, no edge came, and the
\* thread has ended
C13_Witness ==
    /\ imu_shutdown_flag = 1
    /\ h_pc = "done"
    /\ h_tick = 0
    /\ thread_running_flag = 0

-----------------------------------------------------------------------------
(* Initialisation, power-off and the threads they make: SpecLife.  The     *)
(* handler threads are kept here by what the other threads see of them:    *)
(* created, in the loop, past the loop, ended.                             *)

\* threads created in a run
MaxThreads == 2

\* rc_mpu_default_config, the fields the model keeps
DefaultConfig ==
    [enable_magnetometer |-> FALSE, read_mag_after_callback |-> TRUE,
     mag_sample_rate_div |-> 4]

\* the identity bytes tried: the five of the data sheets, decimal 75 and 0
WhoAmIBytes == { 0, 75, 104, 105, 112, 113, 117 }

CheckWhoAmIMut(c) == c \in { 104, 105, 112, 113, 117 }

\* __check_who_am_i accepts the byte:
\* !(c!=0x68 && c!=0x69 && c!=0x70 && c!=0x71 && c!=75)
CheckWhoAmI(c) == ~(c # 104 /\ c # 105 /\ c # 112 /\ c # 113 /\ c # 75)

\* the process before any call of the driver
InitLife ==
    /\ long_bits = 32
    /\ char_signed = FALSE
    /\ packet_len = 0
    /\ dmp_en = 0
    /\ config = DefaultConfig
    /\ data = InitData
    /\ fifo_first_run = 1
    /\ rd = NoRead
    /\ i2c_lock = 0
    /\ imu_shutdown_flag = 0
    /\ thread_running_flag = 0
    /\ last_read_successful = 0
    /\ dmp_callback_func = FALSE
    /\ tap_callback_func = FALSE
    /\ read_mutex = "free"
    /\ tap_mutex = "free"
    /\ destroyed = FALSE
    /\ h_pc = "none"
    /\ h_first_run = 1
    /\ h_mag_div_step = 0
    /\ h_tick = 0
    /\ h_mag = << >>
    /\ tick_log = << >>
    /\ w_pc = "idle" /\ w_ret = 0 /\ w_tick = 0 /\ w_snap = << >>
    /\ t_pc = "idle" /\ t_ret = 0
    /\ p_pc = "idle" /\ p_ret = 0
    /\ InitLifeVars("fresh", "por")
    /\ InitCalVars
    /\ InitIoVars

\* the return of an initialisation call with an error
LFail(why) ==
    /\ l_pc' = "ret"
    /\ l_ret' = -1
    /\ l_fail' = why

\* rc_mpu_initialize_dmp / rc_mpu_initialize up to rc_i2c_lock_bus: the
\* argument checks (dmp), config = conf, rc_i2c_init, which leaves the lock
\* set when it fails, and the GPIO set-up (dmp)
LInitCall ==
    /\ l_pc \in { "idle", "ret" }
    /\ p_pc = "idle"
    /\ w_pc \in { "idle", "ret", "seen" }
    /\ t_pc \in { "idle", "ret" }
    /\ Len(threads) < MaxThreads
    /\ l_n0' = Len(threads)
    /\ l_who' = -1
    /\ \E kind \in { "dmp", "plain" }, o \in { "ok", "args", "bus", "gpio" } :
         /\ o \in { "args", "gpio" } => kind = "dmp"
         /\ l_kind' = kind
         /\ IF o = "args"
            THEN LFail(o) /\ UNCHANGED << config, i2c_lock >>
            ELSE /\ config' = DefaultConfig
                 /\ IF o = "ok"
                    THEN /\ i2c_lock' = 1
                         /\ l_pc' = "reset"
                         /\ UNCHANGED << l_ret, l_fail >>
                    ELSE /\ i2c_lock' = IF o = "bus" THEN 1 ELSE i2c_lock
                         /\ LFail(o)
    /\ UNCHANGED << ioVars, long_bits, char_signed, packet_len, dmp_en, threads, pwr,
                    life, calVars, fifoVars, flagVars, cbVars, syncVars,
                    hVars, wVars, tVars, pVars >>

\* __reset_mpu9250: imu_shutdown_flag = 1, H_RESET then 0 written to
\* PWR_MGMT_1, each tried twice; the caller unlocks the bus on failure
LInitReset ==
    /\ l_pc = "reset"
    /\ imu_shutdown_flag' = 1
    /\ \E o \in { "ok", "no_reset", "no_wake" } :
         /\ pwr' = CASE o = "ok" -> "awake"
                     [] o = "no_reset" -> pwr
                     [] o = "no_wake" -> "reset"
         /\ IF o = "ok"
            THEN l_pc' = "who" /\ UNCHANGED << l_ret, l_fail, i2c_lock >>
            ELSE LFail("reset") /\ i2c_lock' = 0
    /\ UNCHANGED << ioVars, buildVars, threads, l_kind, l_who, l_n0, life, calVars,
                    fifoVars, thread_running_flag, last_read_successful, cbVars,
                    syncVars, hVars, wVars, tVars, pVars >>

\* __check_who_am_i: the read may fail; the byte is tested
LInitWho ==
    /\ l_pc = "who"
    /\ \E c \in WhoAmIBytes \cup { -1 } :
         /\ l_who' = c
         /\ IF c # -1 /\ CheckWhoAmI(c)
            THEN l_pc' = "configure" /\ UNCHANGED << l_ret, l_fail, i2c_lock >>
            ELSE LFail(IF c = -1 THEN "read" ELSE "who") /\ i2c_lock' = 0
    /\ UNCHANGED << ioVars, buildVars, threads, pwr, l_kind, l_n0, life, calVars,
                    fifoVars, flagVars, cbVars, syncVars, hVars, wVars, tVars,
                    pVars >>

\* the register writes that follow ("write" when one fails) and, after
\* dmp_en = 1, the firmware load and the DMP set-up ("firmware" when one of
\* them fails): every failure unlocks the bus and returns -1.
\* rc_mpu_initialize ends here with 0.
LInitConfigure ==
    /\ l_pc = "configure"
    /\ \E o \in { "ok", "write", "firmware" } :
         /\ o = "firmware" => l_kind = "dmp"
         /\ IF o = "ok"
            THEN IF l_kind = "dmp"
                 THEN /\ dmp_en' = 1
                      /\ packet_len' = FIFO_LEN_QUAT_TAP
                      /\ l_pc' = "start"
                      /\ UNCHANGED << l_ret, l_fail, i2c_lock >>
                 ELSE /\ l_pc' = "ret" /\ l_ret' = 0 /\ l_fail' = "none"
                      /\ i2c_lock' = 0
                      /\ UNCHANGED << dmp_en, packet_len >>
            ELSE /\ LFail(o)
                 /\ i2c_lock' = 0
                 /\ dmp_en' = IF o = "firmware" THEN 1 ELSE dmp_en
                 /\ UNCHANGED packet_len
    /\ l_who' = -1
    /\ UNCHANGED << ioVars, long_bits, char_signed, config, threads, pwr, l_kind,
                    l_n0, life, calVars, fifoVars, flagVars, cbVars, syncVars,
                    hVars, wVars, tVars, pVars >>

\* rc_i2c_unlock_bus; tap_detected = 0; imu_shutdown_flag = 0; callbacks
\* NULL; pthread_create (taken to succeed: its result is not looked at);
\* thread_running_flag = 1; return 0.  The new thread enters its loop, or
\* finds no GPIO descriptor and returns at once.
LInitStart ==
    /\ l_pc = "start"
    /\ i2c_lock' = 0
    /\ data' = [data EXCEPT !.tap_detected = 0]
    /\ imu_shutdown_flag' = 0
    /\ dmp_callback_func' = FALSE
    /\ tap_callback_func' = FALSE
    /\ \E st \in { "alive", "exited" } : threads' = Append(threads, st)
    /\ thread_running_flag' = 1
    /\ l_pc' = "ret" /\ l_ret' = 0 /\ l_fail' = "none"
    /\ life' = "dmp"
    /\ UNCHANGED << ioVars, buildVars, pwr, l_kind, l_who, l_n0, calVars, fifo_first_run,
                    rd, last_read_successful, syncVars, hVars, wVars, tVars,
                    pVars >>

LInit == LInitCall \/ LInitReset \/ LInitWho \/ LInitConfigure \/ LInitStart

\* thread k, having found the flag clear after poll, services an interrupt;
\* of the tick only the two broadcasts are kept
LThreadTick(k) ==
    /\ threads[k] = "alive"
    /\ imu_shutdown_flag # 1
    /\ \E reach \in BroadcastOutcomes :
         /\ IF reach /\ w_pc = "wait"
            THEN w_pc' = "woken" /\ w_tick' = 1
            ELSE UNCHANGED << w_pc, w_tick >>
         /\ IF reach /\ t_pc = "wait" THEN t_pc' = "woken" ELSE UNCHANGED t_pc
    /\ UNCHANGED << ioVars, buildVars, lifeVars, calVars, fifoVars, i2c_lock, flagVars,
                    cbVars, syncVars, hVars, w_ret, w_snap, t_ret, pVars >>

\* thread k finds the flag set at the loop test or after poll, and leaves
\* the loop: read_mutex is locked, the read condition broadcast, and the
\* mutex unlocked
LThreadLeave(k) ==
    /\ threads[k] = "alive"
    /\ imu_shutdown_flag = 1
    /\ LockOutcomes(read_mutex, "h") # { }
    /\ threads' = [threads EXCEPT ![k] = "exiting"]
    /\ \E reach \in BroadcastOutcomes :
         IF reach /\ w_pc = "wait"
         THEN w_pc' = "woken" /\ w_tick' = 0
         ELSE UNCHANGED << w_pc, w_tick >>
    /\ UNCHANGED << ioVars, buildVars, pwr, l_pc, l_kind, l_ret, l_fail, l_who, l_n0,
                    life, calVars, fifoVars, i2c_lock, flagVars, cbVars,
                    syncVars, hVars, w_ret, w_snap, tVars, pVars >>

\* thread_running_flag = 0; return 0;
LThreadEnd(k) ==
    /\ threads[k] = "exiting"
    /\ threads' = [threads EXCEPT ![k] = "exited"]
    /\ thread_running_flag' = 0
    /\ UNCHANGED << ioVars, buildVars, pwr, l_pc, l_kind, l_ret, l_fail, l_who, l_n0,
                    life, calVars, fifoVars, i2c_lock, imu_shutdown_flag,
                    last_read_successful, cbVars, syncVars, hVars, wVars, tVars,
                    pVars >>

LThread ==
    \E k \in 1..Len(threads) :
        LThreadTick(k) \/ LThreadLeave(k) \/ LThreadEnd(k)

\* the user thread is in no call of the driver
UserFree ==
    /\ l_pc \in { "idle", "ret" }
    /\ c_pc \in { "idle", "ret" }
    /\ p_pc = "idle"
    /\ w_pc \in { "idle", "ret", "seen" }
    /\ t_pc \in { "idle", "ret" }

\* rc_mpu_power_off is called
LPowerOffCall == UserFree /\ PSetFlag

\* pthread_timedjoin_np on imu_interrupt_thread: the thread has ended, or
\* a second has passed
LJoin ==
    /\ p_pc = "join"
    /\ p_pc' = "destroy"
    /\ UNCHANGED << ioVars, buildVars, lifeVars, calVars, fifoVars, i2c_lock, flagVars,
                    cbVars, syncVars, hVars, wVars, tVars, p_ret >>

\* rc_mpu_power_off has returned to its caller
LPowerOffReturn ==
    /\ p_pc = "ret"
    /\ p_pc' = "idle"
    /\ life' = "off"
    /\ UNCHANGED << ioVars, buildVars, threads, pwr, l_pc, l_kind, l_ret, l_fail, l_who,
                    l_n0, calVars, fifoVars, i2c_lock, flagVars, cbVars,
                    syncVars, hVars, wVars, tVars, p_ret >>

LPowerOff ==
    LPowerOffCall \/ PWrite \/ PCheckRunning \/ LJoin \/ PDestroy \/ LPowerOffReturn

\* the user thread calls rc_mpu_block_until_dmp_data / rc_mpu_block_until_tap
LWaiter == (w_pc \in { "idle", "ret", "seen" } => UserFree) /\ Waiter

LTapWaiter == (t_pc \in { "idle", "ret" } => UserFree) /\ TapWaiter

\* a user thread that calls the initialisation functions, rc_mpu_power_off
\* and the blocking functions one after another in any order, and the
\* threads rc_mpu_initialize_dmp makes
NextLife == LInit \/ LPowerOff \/ LThread \/ LWaiter \/ LTapWaiter

SpecLife == InitLife /\ [][NextLife]_vars

\* the threads that have not ended
AliveThreads == { k \in 1..Len(threads) : threads[k] # "exited" }

\* C11: over any sequence of rc_mpu_initialize_dmp and rc_mpu_power_off
\* calls at most one interrupt-handler thread is alive at any time.
C11_OneHandlerThread == Cardinality(AliveThreads) <= 1

\* positions of a blocking call before pthread_mutex_lock
BeforeLock == { "idle", "ret", "seen", "chk_sd", "chk_run" }

\* C14: called before any successful rc_mpu_initialize_dmp or after
\* rc_mpu_power_off, rc_mpu_block_until_dmp_data and rc_mpu_block_until_tap
\* return -1 at once: no mutex is locked and no condition waited on.
C14_BlockingCallsRefuse ==
    [][ life # "dmp" =>
          /\ w_pc' \in BeforeLock /\ t_pc' \in BeforeLock
          /\ (w_pc' = "ret" /\ w_pc # "ret") => w_ret' = -1
          /\ (t_pc' = "ret" /\ t_pc # "ret") => t_ret' = -1
          /\ read_mutex' = read_mutex /\ tap_mutex' = tap_mutex ]_vars

\* after an initialisation, a power-off whose join timed out (the thread is
\* still in its loop) and both calls made, both have returned -1
C14_Witness ==
    /\ life = "off"
    /\ destroyed
    /\ \E k \in 1..Len(threads) : threads[k] = "alive"
    /\ thread_running_flag = 1
    /\ w_pc = "ret" /\ w_ret = -1
    /\ t_pc = "ret" /\ t_ret = -1

\* 0x68, 0x69, 0x70, 0x71, 0x75
DataSheetIds == { 104, 105, 112, 113, 117 }

\* C19: the who_am_i check succeeds if and only if the byte read is one of
\* 0x68, 0x69, 0x70, 0x71, 0x75; any other byte makes initialisation fail.
C19_WhoAmIAccepted ==
    /\ l_pc = "configure" => l_who \in DataSheetIds
    /\ (l_pc = "ret" /\ l_fail = "who") => l_who \notin DataSheetIds

\* identity byte rejected, firmware read-back mismatch, register write
\* failing after its retry with PWR_MGMT_1 written before
FatalDeviceError == l_pc = "ret" /\ l_fail \in { "who", "firmware", "write" }

\* C20: an initialisation that fails on a fatal device error returns an
\* error with the IMU powered down and no interrupt thread created.
C20_FailedInitPowersDown ==
    FatalDeviceError =>
        /\ l_ret = -1
        /\ pwr = "sleep"
        /\ Len(threads) = l_n0

-----------------------------------------------------------------------------
(* The calibration routines: SpecCal *)

GYRO_CAL_THRESH == 50
GYRO_OFFSET_THRESH == 500

\* const int samples = 200;
MagSamples == 200

Abs(x) == IF x < 0 THEN -x ELSE x

BusClaimedMut(l) == FALSE

\* if(rc_i2c_get_lock(config.i2c_bus))
BusClaimed(l) == l # 0

\* dev_x>GYRO_CAL_THRESH||dev_y>GYRO_CAL_THRESH||dev_z>GYRO_CAL_THRESH
GyroNoisy(dev) == \E k \in 1..3 : dev[k] > GYRO_CAL_THRESH

\* abs(offsets[k])>GYRO_OFFSET_THRESH on some axis
GyroOffsetOut(off) == \E k \in 1..3 : Abs(off[k]) > GYRO_OFFSET_THRESH

CenterOutMut(c) == FALSE

\* fabs(center.d[0])>200 || fabs(center.d[1])>200 || fabs(center.d[2])>200
CenterOut(c) == \E k \in 1..3 : Abs(c[k]) > 200

\* lengths.d[k]>200 || lengths.d[k]<5 on some axis
LengthsWarn(l) == \E k \in 1..3 : l[k] > 200 \/ l[k] < 5

\* a 0.4 s sampling window: the FIFO reads, the standard deviations and the
\* means of the three axes (whole numbers stand for the floats)
GyroWindows ==
    [read_ok : BOOLEAN,
     dev : { << 10, 10, 10 >>, << 50, 50, 50 >>, << 10, 51, 10 >> },
     off : { << 3, -2, 0 >>, << 500, -500, 0 >>, << 0, 0, -501 >> }]

\* what rc_algebra_fit_ellipsoid returns
FitOutcomes ==
    { [ok |-> FALSE, center |-> << 0, 0, 0 >>, lengths |-> << 0, 0, 0 >>] } \cup
    [ok : { TRUE },
     center : { << 200, -200, 10 >>, << 300, 0, 0 >>, << 0, -201, 0 >> },
     lengths : { << 5, 200, 50 >>, << 4, 50, 50 >>, << 50, 201, 50 >> }]

\* the return of a calibration routine
CReturn(r) == c_pc' = "ret" /\ c_ret' = r

\* either routine up to rc_i2c_lock_bus: config wiped with the defaults, the
\* lock looked at, rc_i2c_init, which leaves the lock set when it fails
CCall ==
    /\ c_pc \in { "idle", "ret" }
    /\ \E kind \in { "gyro", "mag" }, init_ok \in BOOLEAN :
         /\ c_kind' = kind
         /\ config' = [DefaultConfig EXCEPT !.enable_magnetometer = (kind = "mag")]
         /\ c_lock0' = i2c_lock
         /\ IF BusClaimed(i2c_lock)
            THEN CReturn(-1) /\ c_failed' = FALSE /\ UNCHANGED i2c_lock
            ELSE /\ i2c_lock' = 1
                 /\ c_failed' = ~init_ok
                 /\ IF init_ok THEN c_pc' = "reset" /\ c_ret' = 0 ELSE CReturn(-1)
    /\ c_i' = 0
    /\ c_steady' = 1
    /\ c_noisy' = FALSE
    /\ c_xfer' = FALSE
    /\ c_fit' = << >>
    /\ c_log' = NoLog
    /\ UNCHANGED << ioRest, long_bits, char_signed, packet_len, dmp_en, lifeVars,
                    gyro_file, mag_file, fifoVars, flagVars, cbVars, syncVars,
                    hVars, wVars, tVars, pVars >>

\* __reset_mpu9250, which sets imu_shutdown_flag; neither routine unlocks
\* the bus when it fails.  The register writes of the gyro routine that
\* follow are not checked.
CReset ==
    /\ c_pc = "reset"
    /\ imu_shutdown_flag' = 1
    /\ c_xfer' = TRUE
    /\ \E o \in { "ok", "no_reset", "no_wake" } :
         /\ pwr' = CASE o = "ok" -> "awake"
                     [] o = "no_reset" -> pwr
                     [] o = "no_wake" -> "reset"
         /\ IF o = "ok"
            THEN /\ c_pc' = IF c_kind = "gyro" THEN "collect" ELSE "who"
                 /\ UNCHANGED << c_ret, c_failed >>
            ELSE CReturn(-1) /\ c_failed' = TRUE
    /\ UNCHANGED << ioVars, buildVars, threads, l_pc, l_kind, l_ret, l_fail, l_who, l_n0,
                    life, c_kind, c_i, c_steady, c_noisy, c_lock0, c_fit,
                    gyro_file, mag_file, fifoVars, i2c_lock, thread_running_flag,
                    last_read_successful, cbVars, syncVars, hVars, wVars, tVars,
                    pVars >>

SkipQuietMut(steady) == FALSE

\* if(was_last_steady == 0)
SkipQuiet(steady) == steady = 0

\* the window just taken becomes the last one of the log
Logged(win) == [c_log EXCEPT !.prev = c_log.last[1], !.last = << win.dev, win.off >>]

\* COLLECT_DATA: one pass, from the flag test to a goto or to the end of
\* the routine
CGyroCollect ==
    /\ c_pc = "collect"
    /\ IF imu_shutdown_flag # 0
       THEN /\ i2c_lock' = 0
            /\ CReturn(-1)
            /\ UNCHANGED << c_steady, c_noisy, c_failed, gyro_file, c_log >>
       ELSE \E win \in GyroWindows, file \in { "ok", "no_open", "no_write" } :
              CASE ~win.read_ok ->
                     /\ CReturn(-1) /\ c_failed' = TRUE
                     /\ UNCHANGED << i2c_lock, c_steady, c_noisy, gyro_file, c_log >>
                [] win.read_ok /\ GyroNoisy(win.dev) ->
                     /\ c_steady' = 0 /\ c_noisy' = TRUE
                     /\ c_log' = Logged(win)
                     /\ UNCHANGED << i2c_lock, c_pc, c_ret, c_failed, gyro_file >>
                [] win.read_ok /\ ~GyroNoisy(win.dev) /\ SkipQuiet(c_steady) ->
                     /\ c_steady' = 1
                     /\ c_log' = Logged(win)
                     /\ UNCHANGED << i2c_lock, c_pc, c_ret, c_noisy, c_failed, gyro_file >>
                [] win.read_ok /\ ~GyroNoisy(win.dev) /\ ~SkipQuiet(c_steady)
                   /\ GyroOffsetOut(win.off) ->
                     /\ c_noisy' = TRUE
                     /\ c_log' = Logged(win)
                     /\ UNCHANGED << i2c_lock, c_pc, c_ret, c_steady, c_failed, gyro_file >>
                [] OTHER ->
                     /\ i2c_lock' = 0
                     /\ gyro_file' = CASE file = "ok" -> win.off
                                       [] file = "no_open" -> gyro_file
                                       [] file = "no_write" -> << "empty" >>
                     /\ CReturn(IF file = "ok" THEN 0 ELSE -1)
                     /\ c_failed' = (file # "ok")
                     /\ c_log' = Logged(win)
                     /\ UNCHANGED << c_steady, c_noisy >>
    /\ UNCHANGED << ioRest, buildVars, lifeVars, c_kind, c_i, c_xfer, c_lock0, c_fit,
                    mag_file, fifoVars, flagVars, cbVars, syncVars, hVars, wVars,
                    tVars, pVars >>

\* __check_who_am_i and __init_magnetometer: a failure unlocks the bus
CMagWho ==
    /\ c_pc = "who"
    /\ \E ok \in BOOLEAN :
         IF ok
         THEN c_pc' = "sample" /\ UNCHANGED << c_ret, c_failed, i2c_lock >>
         ELSE CReturn(-1) /\ c_failed' = TRUE /\ i2c_lock' = 0
    /\ UNCHANGED << ioVars, buildVars, lifeVars, c_kind, c_i, c_steady, c_noisy, c_xfer,
                    c_lock0, c_fit, gyro_file, mag_file, fifoVars, flagVars,
                    cbVars, syncVars, hVars, wVars, tVars, pVars >>

\* while(i<samples && imu_shutdown_flag==0), the whole loop: it does not
\* start with the flag set; otherwise it ends on a failed or all-zero
\* read, at the first or at the last sample, or it takes every sample
CMagSample ==
    /\ c_pc = "sample"
    /\ \E n \in (IF imu_shutdown_flag = 0 THEN { 0, MagSamples - 1, MagSamples }
                                          ELSE { 0 }),
          why \in { "fail", "zero" } :
         /\ c_i' = n
         /\ c_failed' = (c_failed \/ (imu_shutdown_flag = 0 /\ n < MagSamples
                                      /\ why = "fail"))
         /\ c_log' = [c_log EXCEPT !.stop = IF imu_shutdown_flag # 0 THEN "flag"
                                            ELSE IF n = MagSamples THEN "full"
                                            ELSE why]
    /\ c_pc' = "off"
    /\ UNCHANGED << ioRest, buildVars, lifeVars, c_kind, c_ret, c_steady, c_noisy, c_xfer,
                    c_lock0, c_fit, gyro_file, mag_file, fifoVars, i2c_lock,
                    flagVars, cbVars, syncVars, hVars, wVars, tVars, pVars >>

\* rc_mpu_power_off(), its result not looked at, and rc_i2c_unlock_bus;
\* if(i<samples) return -1;
CMagPowerOff ==
    /\ c_pc = "off"
    /\ imu_shutdown_flag' = 1
    /\ \E o \in { "ok", "no_reset", "no_sleep" } :
         /\ pwr' = CASE o = "ok" -> "sleep"
                     [] o = "no_reset" -> pwr
                     [] o = "no_sleep" -> "reset"
         /\ destroyed' = (destroyed \/ (o = "ok" /\ thread_running_flag # 0))
         /\ c_failed' = (c_failed \/ o # "ok")
    /\ i2c_lock' = 0
    /\ IF c_i < MagSamples
       THEN CReturn(-1)
       ELSE c_pc' = "fit" /\ UNCHANGED c_ret
    /\ UNCHANGED << ioVars, buildVars, threads, l_pc, l_kind, l_ret, l_fail, l_who, l_n0,
                    life, c_kind, c_i, c_steady, c_noisy, c_xfer, c_lock0, c_fit,
                    gyro_file, mag_file, fifoVars, thread_running_flag,
                    last_read_successful, cbVars, read_mutex, tap_mutex, hVars,
                    wVars, tVars, pVars >>

\* rc_algebra_fit_ellipsoid, the two sanity checks, new_scale[k] =
\* 70.0/lengths.d[k] (kept as the pair << 70, length >>) and
\* __write_mag_cal_to_disk
CMagFit ==
    /\ c_pc = "fit"
    /\ \E fit \in FitOutcomes, file \in { "ok", "no_open", "no_write" } :
         /\ c_fit' = fit
         /\ IF ~fit.ok \/ CenterOut(fit.center)
            THEN CReturn(-1) /\ UNCHANGED << mag_file, c_failed >>
            ELSE /\ mag_file' =
                      CASE file = "ok" ->
                             [offsets |-> fit.center,
                              scale |-> [k \in 1..3 |-> << 70, fit.lengths[k] >>],
                              warned |-> LengthsWarn(fit.lengths)]
                        [] file = "no_open" -> mag_file
                        [] file = "no_write" -> << "empty" >>
                 /\ CReturn(IF file = "ok" THEN 0 ELSE -1)
                 /\ c_failed' = (c_failed \/ file # "ok")
    /\ UNCHANGED << ioVars, buildVars, lifeVars, c_kind, c_i, c_steady, c_noisy, c_xfer,
                    c_lock0, gyro_file, fifoVars, i2c_lock, flagVars, cbVars,
                    syncVars, hVars, wVars, tVars, pVars >>

Calibrate == CCall \/ CReset \/ CGyroCollect \/ CMagWho \/ CMagSample
             \/ CMagPowerOff \/ CMagFit

\* a thread that calls the calibration routines and a thread that calls
\* the initialisation functions
NextCal == Calibrate \/ LInit

SpecCal == InitLife /\ [][NextCal]_vars

\* a gyro calibration has returned that found the bus free, met no failed
\* I2C or file operation and saw every window within both thresholds
QuietGyroRun ==
    /\ c_pc = "ret"
    /\ c_kind = "gyro"
    /\ c_lock0 = 0
    /\ ~c_failed
    /\ ~c_noisy

\* C15: with the bus lock free, every I2C transfer succeeding and a
\* stationary device, rc_mpu_calibrate_gyro_routine returns 0 after writing
\* the three offsets to the calibration file; it returns no error when no
\* I2C or file operation failed.
C15_GyroCalibrationSucceeds ==
    QuietGyroRun => (c_ret = 0 /\ Len(gyro_file) = 3)

\* the step in which rc_mpu_calibrate_mag_routine goes on from a fit that
\* succeeded
FitStep == c_pc = "fit" /\ c_pc' = "ret" /\ c_fit'.ok

\* an axis length outside the open interval (5, 200)
LengthOutside(l) == \E k \in 1..3 : l[k] <= 5 \/ l[k] >= 200

\* C16: when the ellipsoid fit yields an axis length outside (5, 200),
\* rc_mpu_calibrate_mag_routine aborts with an error and does not write or
\* overwrite the magnetometer calibration file.
C16_BadLengthsAbort ==
    [][ (FitStep /\ LengthOutside(c_fit'.lengths))
          => (c_ret' = -1 /\ mag_file' = mag_file) ]_vars

\* C17: when the ellipsoid fit yields a center with |c_k| > 200 on an axis,
\* rc_mpu_calibrate_mag_routine returns an error and the calibration file
\* is not written.
C17_BadCenterAborts ==
    [][ (FitStep /\ \E k \in 1..3 : Abs(c_fit'.center[k]) > 200)
          => (c_ret' = -1 /\ mag_file' = mag_file) ]_vars

\* all 200 samples were taken, the fit gave the center (300, 0, 0), and the
\* routine has returned -1 with the file as it was found
C17_Witness ==
    /\ c_pc = "ret"
    /\ c_kind = "mag"
    /\ c_i = MagSamples
    /\ c_fit # << >>
    /\ c_fit.ok
    /\ c_fit.center = << 300, 0, 0 >>
    /\ c_ret = -1
    /\ mag_file = << >>

\* C18: called with the cooperative lock of the bus already set, either
\* calibration routine returns -1 without an I2C transfer and without
\* changing the lock.
C18_CalibrationRefusesClaimedBus ==
    [][ (c_pc \in { "idle", "ret" } /\ i2c_lock # 0 /\ calVars' # calVars)
          => /\ c_pc' = "ret"
             /\ c_ret' = -1
             /\ ~c_xfer'
             /\ i2c_lock' = i2c_lock ]_vars

\* rc_mpu_calibrate_mag_routine, called while an initialisation in another
\* thread held the bus, has returned -1; the bus is still claimed
C18_Witness ==
    /\ c_pc = "ret"
    /\ c_kind = "mag"
    /\ c_lock0 = 1
    /\ i2c_lock = 1
    /\ c_ret = -1
    /\ ~c_xfer
    /\ l_pc = "who"

-----------------------------------------------------------------------------
(* The I2C adapter, the bank-paged memory access and the firmware loader:  *)
(* SpecBus.  One thread makes the calls, one after the other.              *)

\* mpu_defs.h and dmp_firmware.h are not among the sources; the values are
\* those of the description (256-byte banks, 3062 bytes in chunks of 16)
MPU6500_BANK_SIZE == 256
DMP_CODE_SIZE == 3062
DMP_LOAD_CHUNK == 16

\* the devices on the bus: the MPU at 0x68 and the magnetometer at 0x0C
BusAddrs == { 104, 12 }

\* (uint8_t) length, as the adapter functions take it
ToUint8(n) == n % 256

Min(a, b) == IF a < b THEN a ELSE b

\* no loader call in progress, its locals dead
FwIdle == [pc |-> "idle", ii |-> 0, ret |-> 0, cur |-> "none"]

\* the record of an adapter or memory-access call
Op(fn, addr, len, buf, ioctl, ret) ==
    [fn |-> fn, addr |-> addr, len |-> len, buf |-> buf,
     cache0 |-> i2c.devAddr, lock0 |-> i2c_lock, ioctl |-> ioctl, ret |-> ret]

\* one transfer on the bus: len bytes written to or read from a register
Xfer(dir, reg, len, bytes, ok) ==
    [dir |-> dir, reg |-> reg, len |-> len, bytes |-> bytes, ok |-> ok]

\* rc_i2c_init: the cache is written before open() and ioctl(), and the two
\* early returns leave the lock set
BInit ==
    /\ fw.pc \in { "idle", "ret" }
    /\ \E addr \in BusAddrs, o \in { "ok", "no_open", "no_ioctl" } :
         /\ i2c' = [devAddr |-> addr,
                    file |-> IF o = "no_open" THEN "bad" ELSE "open",
                    initialized |-> 1,
                    kaddr |-> IF o = "ok" THEN addr ELSE -1]
         /\ i2c_lock' = IF o = "ok" THEN i2c_lock ELSE 1
         /\ b_op' = Op("init", addr, 0, TRUE,
                       CASE o = "ok" -> "ok"
                         [] o = "no_ioctl" -> "fail"
                         [] o = "no_open" -> "none",
                       IF o = "ok" THEN 0 ELSE -1)
    /\ bus_log' = << >>
    /\ fw' = FwIdle
    /\ UNCHANGED << setupVars, buildVars, lifeVars, calVars, fifoVars,
                    flagVars, cbVars, syncVars, hVars, wVars, tVars,
                    pVars >>

AddressCachedMut(cache, addr) == TRUE

\* if(i2c[bus].devAddr == devAddr) return 0;
AddressCached(cache, addr) == cache = addr

\* ioctl(i2c[bus].file, I2C_SLAVE, devAddr) works on an open file when the
\* kernel accepts it
IoctlOutcomes == IF i2c.file = "open" THEN { "ok", "fail" } ELSE { "fail" }

\* i2c[] after rc_i2c_set_device_address(bus, addr) whose ioctl, if it is
\* made, ends as o
AfterSetAddress(addr, o) ==
    IF ~AddressCached(i2c.devAddr, addr) /\ o = "ok"
    THEN [i2c EXCEPT !.devAddr = addr, !.kaddr = addr]
    ELSE i2c

\* rc_i2c_set_device_address
BSetAddress ==
    /\ fw.pc \in { "idle", "ret" }
    /\ \E addr \in BusAddrs, o \in IoctlOutcomes :
         /\ i2c' = AfterSetAddress(addr, o)
         /\ b_op' = IF AddressCached(i2c.devAddr, addr)
                    THEN Op("set_address", addr, 0, TRUE, "none", 0)
                    ELSE Op("set_address", addr, 0, TRUE, o,
                            IF o = "ok" THEN 0 ELSE -1)
    /\ bus_log' = << >>
    /\ fw' = FwIdle
    /\ UNCHANGED << setupVars, buildVars, lifeVars, calVars, fifoVars,
                    i2c_lock, flagVars, cbVars, syncVars, hVars, wVars, tVars,
                    pVars >>

\* rc_i2c_close
BClose ==
    /\ fw.pc \in { "idle", "ret" }
    /\ \E ok \in IF i2c.file = "open" THEN BOOLEAN ELSE { FALSE } :
         /\ i2c' = IF ok
                   THEN [devAddr |-> 0, file |-> "closed", initialized |-> 0,
                         kaddr |-> -1]
                   ELSE [i2c EXCEPT !.devAddr = 0]
         /\ b_op' = Op("close", 0, 0, TRUE, "none", IF ok THEN 0 ELSE -1)
    /\ bus_log' = << >>
    /\ fw' = FwIdle
    /\ UNCHANGED << setupVars, buildVars, lifeVars, calVars, fifoVars,
                    i2c_lock, flagVars, cbVars, syncVars, hVars, wVars, tVars,
                    pVars >>

\* the register reads and writes of the adapter, and the functions for one
\* byte or word that call them
ReadFns == { "read_bytes", "read_words" }
WriteFns == { "write_bytes", "write_words", "send_bytes" }

\* how a transfer can end: the write of the register address or of the
\* payload fails, the read returns fewer bytes than asked for
TransferOutcomes(fn) ==
    IF fn \in ReadFns THEN { "ok", "no_reg", "short" } ELSE { "ok", "no_write" }

RestoresLockMut(fn, o) == TRUE

\* the return paths that reach i2c[bus].lock = old_lock
RestoresLock(fn, o) == o = "ok" \/ (fn = "read_bytes" /\ o = "short")

\* i2c[bus].lock after a transfer function called with the lock at l
LockAfter(fn, o, l) == IF RestoresLock(fn, o) THEN l ELSE 1

\* what the transfer function returns for a request of len bytes or words
TransferRet(fn, o, len) ==
    CASE fn = "read_bytes" /\ o = "ok" -> len
      [] fn = "read_bytes" /\ o = "short" -> len - 1
      [] fn # "read_bytes" /\ o = "ok" -> 0
      [] OTHER -> -1

\* rc_i2c_read_bytes, rc_i2c_read_words, rc_i2c_write_bytes,
\* rc_i2c_write_words, rc_i2c_send_bytes
BTransfer ==
    /\ fw.pc \in { "idle", "ret" }
    /\ \E fn \in ReadFns \cup WriteFns, len \in { 2 } :
         \E o \in TransferOutcomes(fn) :
           /\ i2c_lock' = LockAfter(fn, o, i2c_lock)
           /\ b_op' = Op(fn, i2c.devAddr, len, TRUE, "none", TransferRet(fn, o, len))
    /\ bus_log' = << >>
    /\ fw' = FwIdle
    /\ UNCHANGED << setupVars, buildVars, lifeVars, calVars, fifoVars,
                    flagVars, cbVars, syncVars, hVars, wVars, tVars, pVars, i2c >>

\* rc_i2c_lock_bus and rc_i2c_unlock_bus, which return the old state
BLockBus ==
    /\ fw.pc \in { "idle", "ret" }
    /\ \E l \in { 0, 1 } :
         /\ i2c_lock' = l
         /\ b_op' = Op(IF l = 1 THEN "lock_bus" ELSE "unlock_bus", 0, 0, TRUE,
                       "none", i2c_lock)
    /\ bus_log' = << >>
    /\ fw' = FwIdle
    /\ UNCHANGED << setupVars, buildVars, lifeVars, calVars, fifoVars,
                    flagVars, cbVars, syncVars, hVars, wVars, tVars, pVars, i2c >>

CrossesBankMut(mem_addr, length) == FALSE

\* tmp[1] = mem_addr & 0xFF; if (tmp[1] + length > MPU6500_BANK_SIZE)
CrossesBank(mem_addr, length) == (mem_addr % 256) + length > MPU6500_BANK_SIZE

\* __mpu_write_mem (dir "w") and __mpu_read_mem (dir "r") for a buffer that
\* is there (buf) or NULL: the transfers made, what is returned and where
\* the lock is left.  o1 is the end of the bank-select write, o2 that of the
\* transfer of the payload, whose length the adapter takes as a uint8_t.
MemAccess(dir, mem_addr, length, buf, o1, o2, l) ==
    LET bank == Xfer("w", "BANK_SEL", 2,
                     << ToUint8(mem_addr \div 256), mem_addr % 256 >>, o1 = "ok")
        fn == IF dir = "w" THEN "write_bytes" ELSE "read_bytes"
        n == ToUint8(length)
        got == TransferRet(fn, o2, n)
        pay == Xfer(dir, "MEM_R_W", n, "data", o2 = "ok")
    IN  IF ~buf \/ CrossesBank(mem_addr, length)
        THEN [ret |-> -1, log |-> << >>, lock |-> l]
        ELSE IF o1 # "ok"
        THEN [ret |-> -1, log |-> << bank >>, lock |-> LockAfter("write_bytes", o1, l)]
        ELSE [ret |-> IF dir = "w"
                      THEN (IF got = 0 THEN 0 ELSE -1)
                      ELSE (IF got # length THEN -1 ELSE 0),
              log |-> << bank, pay >>,
              lock |-> LockAfter(fn, o2, l)]

\* the requests: in-bank addresses 0, 250 and 255 in banks 0 and 1, lengths
\* that end before, at and past the end of the bank
MemAddrs == { 0, 250, 511 }
MemLens == { 1, 6, 7, 256, 257 }

\* __mpu_write_mem or __mpu_read_mem, called on its own
MCall ==
    /\ fw.pc \in { "idle", "ret" }
    /\ \E dir \in { "w", "r" }, mem_addr \in MemAddrs, length \in MemLens,
          buf \in BOOLEAN, o1 \in { "ok", "no_write" } :
         \E o2 \in TransferOutcomes(IF dir = "w" THEN "write_bytes" ELSE "read_bytes") :
           LET m == MemAccess(dir, mem_addr, length, buf, o1, o2, i2c_lock)
           IN  \* an outcome is drawn only for a transfer that is made, and
               \* one request is enough for the NULL buffer
               /\ ~buf => (mem_addr = 0 /\ length = 1)
               /\ Len(m.log) = 0 => o1 = "ok"
               /\ Len(m.log) < 2 => o2 = "ok"
               /\ bus_log' = m.log
               /\ i2c_lock' = m.lock
               /\ b_op' = Op(IF dir = "w" THEN "write_mem" ELSE "read_mem",
                             mem_addr, length, buf, "none", m.ret)
    /\ fw' = FwIdle
    /\ UNCHANGED << setupVars, buildVars, lifeVars, calVars, fifoVars,
                    flagVars, cbVars, syncVars, hVars, wVars, tVars, pVars, i2c >>

\* __dmp_load_motion_driver_firmware up to the loop: the result of
\* rc_i2c_set_device_address is not looked at
FCall ==
    /\ fw.pc \in { "idle", "ret" }
    /\ \E o \in IoctlOutcomes :
         i2c' = AfterSetAddress(104, o)
    /\ fw' = [pc |-> "chunk", ii |-> 0, ret |-> 0, cur |-> "none"]
    /\ b_op' = Op("load", 0, 0, TRUE, "none", 0)
    /\ bus_log' = << >>
    /\ UNCHANGED << setupVars, buildVars, lifeVars, calVars, fifoVars,
                    i2c_lock, flagVars, cbVars, syncVars, hVars, wVars, tVars,
                    pVars >>

ChunkLenMut(ii) == DMP_LOAD_CHUNK

\* this_write = min(DMP_LOAD_CHUNK, DMP_CODE_SIZE - ii)
ChunkLen(ii) == Min(DMP_LOAD_CHUNK, DMP_CODE_SIZE - ii)

ChunkDiffersMut(back) == FALSE

\* memcmp(firmware+ii, cur, this_write)
ChunkDiffers(back) == back # "same"

\* one pass of for (ii=0; ii<DMP_CODE_SIZE; ii+=this_write): the chunk at ii
\* written, read back into cur (the bytes read are the same as those
\* written or not) and compared; bus_log holds the transfers of the pass
FChunk ==
    /\ fw.pc = "chunk"
    /\ fw.ii < DMP_CODE_SIZE
    /\ \E o1 \in { "ok", "no_bank", "no_write" },
          o2 \in { "ok", "no_bank", "no_reg", "short" },
          back \in { "same", "other" } :
         LET this_write == ChunkLen(fw.ii)
             w == MemAccess("w", fw.ii, this_write, TRUE,
                            IF o1 = "no_bank" THEN "no_write" ELSE "ok",
                            IF o1 = "no_write" THEN "no_write" ELSE "ok", i2c_lock)
             r == MemAccess("r", fw.ii, this_write, TRUE,
                            IF o2 = "no_bank" THEN "no_write" ELSE "ok",
                            IF o2 \in { "no_reg", "short" } THEN o2 ELSE "ok", w.lock)
         IN  \* an outcome is drawn only for what is done
             /\ w.ret # 0 => o2 = "ok"
             /\ (w.ret # 0 \/ r.ret # 0) => back = "same"
             /\ IF w.ret # 0
                THEN /\ fw' = [fw EXCEPT !.pc = "ret", !.ret = -1]
                     /\ bus_log' = w.log
                     /\ i2c_lock' = w.lock
                ELSE /\ bus_log' = w.log \o r.log
                     /\ i2c_lock' = r.lock
                     /\ fw' = IF r.ret # 0
                              THEN [fw EXCEPT !.pc = "ret", !.ret = -1]
                              ELSE IF ChunkDiffers(back)
                              THEN [fw EXCEPT !.pc = "ret", !.ret = -2, !.cur = back]
                              ELSE [fw EXCEPT !.ii = fw.ii + this_write, !.cur = back]
    /\ UNCHANGED << setupVars, buildVars, lifeVars, calVars, fifoVars,
                    flagVars, cbVars, syncVars, hVars, wVars, tVars, pVars, i2c, b_op >>

\* after the loop: the start address written to MPU6500_PRGM_START_H
FStart ==
    /\ fw.pc = "chunk"
    /\ ~(fw.ii < DMP_CODE_SIZE)
    /\ \E o \in { "ok", "no_write" } :
         /\ bus_log' = << Xfer("w", "PRGM_START_H", 2, "dmp_start_addr", o = "ok") >>
         /\ i2c_lock' = LockAfter("write_bytes", o, i2c_lock)
         /\ fw' = [fw EXCEPT !.pc = "ret", !.ret = IF o = "ok" THEN 0 ELSE -1]
    /\ UNCHANGED << setupVars, buildVars, lifeVars, calVars, fifoVars,
                    flagVars, cbVars, syncVars, hVars, wVars, tVars, pVars, i2c, b_op >>

Adapter == BInit \/ BSetAddress \/ BClose \/ BTransfer \/ BLockBus

LoadFirmware == FCall \/ FChunk \/ FStart

\* the adapter functions and the memory access functions called in any order
NextBus == Adapter \/ MCall

SpecBus == InitLife /\ [][NextBus]_vars

\* the firmware loader, called again and again after rc_i2c_init
NextLoad == BInit \/ LoadFirmware

SpecLoad == InitLife /\ [][NextLoad]_vars

\* every transfer of the log went through
AllOk(log) == \A k \in 1..Len(log) : log[k].ok

\* the k-th transfer of the log writes bank and in-bank address of at to the
\* bank-select register
SelectsBank(log, k, at) ==
    /\ Len(log) >= k
    /\ log[k].dir = "w"
    /\ log[k].reg = "BANK_SEL"
    /\ log[k].bytes = << at \div 256, at % 256 >>

\* the k-th transfer of the log moves n bytes through the memory register
MovesPayload(log, k, dir, n) ==
    /\ Len(log) >= k
    /\ log[k].dir = dir
    /\ log[k].reg = "MEM_R_W"
    /\ log[k].len = n

\* a pass of the loop of the loader is about to run
ChunkStep == fw.pc = "chunk" /\ fw.ii < 3062

\* C21: the firmware loader writes the image in ascending address order in
\* chunks of at most 16 bytes, reads back and compares each chunk right
\* after writing it, stops with an error at the first write failure, read
\* failure or mismatch, and writes the program start address only after
\* every chunk has been verified.
C21_FirmwareVerified ==
    [][ /\ ChunkStep =>
             LET n == IF 3062 - fw.ii < 16 THEN 3062 - fw.ii ELSE 16
             IN  /\ SelectsBank(bus_log', 1, fw.ii)
                 /\ bus_log'[1].ok => MovesPayload(bus_log', 2, "w", n)
                 /\ (bus_log'[1].ok /\ bus_log'[2].ok)
                      => SelectsBank(bus_log', 3, fw.ii)
                 /\ (Len(bus_log') >= 3 /\ bus_log'[3].ok)
                      => MovesPayload(bus_log', 4, "r", n)
                 /\ Len(bus_log') <= 4
                 /\ (~AllOk(bus_log') \/ fw'.cur = "other")
                      => (fw'.pc = "ret" /\ fw'.ret < 0 /\ fw'.ii = fw.ii)
                 /\ fw'.pc = "chunk"
                      => /\ fw'.ii = fw.ii + n
                         /\ Len(bus_log') = 4
                         /\ AllOk(bus_log')
                         /\ fw'.cur = "same"
        /\ (\E k \in 1..Len(bus_log') : bus_log'[k].reg = "PRGM_START_H")
             => (fw.pc = "chunk" /\ fw.ii = 3062 /\ Len(bus_log') = 1)
        /\ (fw.pc = "chunk" /\ fw'.ret = 0) => fw'.ii >= fw.ii
      ]_vars

\* the whole image went through and the start address was written
C21_Witness ==
    /\ fw.pc = "ret"
    /\ fw.ret = 0
    /\ fw.ii = 3062
    /\ fw.cur = "same"
    /\ Len(bus_log) = 1
    /\ bus_log[1].reg = "PRGM_START_H"
    /\ bus_log[1].ok

\* a call of one of the two memory access functions has returned
MemCallDone == b_op.fn \in { "write_mem", "read_mem" }

C25_LockRestored ==
    b_op.fn \in { "read_bytes", "read_words", "write_bytes" }
        => i2c_lock = b_op.lock0

\* C26: the cached device address always equals the address the kernel was
\* last successfully set to: rc_i2c_set_device_address issues the ioctl
\* exactly when the requested address differs from the cached one, and the
\* cache changes only when that ioctl succeeds, in rc_i2c_init too.
C26_AddressCacheTracksKernel ==
    /\ b_op.fn = "set_address"
         => ((b_op.ioctl # "none") <=> (b_op.addr # b_op.cache0))
    /\ (b_op.fn \in { "init", "set_address" } /\ i2c.devAddr # b_op.cache0)
         => b_op.ioctl = "ok"
    /\ (b_op.fn \in { "init", "set_address" } /\ b_op.ret = 0)
         => i2c.devAddr = i2c.kaddr

-----------------------------------------------------------------------------
(* The magnetometer divider and the callbacks of the handler: Spec *)

\* the handler goes on to rc_mpu_read_mag
MagReadStep == h_pc \in { "mag_before", "mag_after" } /\ h_pc' \in { "magb_io", "maga_io" }

\* the handler passes the place of the read in the mode configured without
\* reading
MagSkipStep ==
    \/ h_pc = "mag_before" /\ ~config.read_mag_after_callback /\ h_pc' = "unlock_bus2"
    \/ h_pc = "mag_after" /\ config.read_mag_after_callback /\ h_pc' = "loop"

\* interrupt k is one of 1, 1+N, 1+2N, ...
MagTick(k, N) == (k - 1) % N = 0

CallbackRunning ==
    \/ h_pc = "cb_data" /\ dmp_callback_func
    \/ h_pc = "cb_tap" /\ tap_callback_func

\* C29: in every state in which a data callback or a tap callback is
\* executing, the interrupt thread holds read_mutex and tap_mutex and has
\* finished writing the FIFO-derived fields of the record for that tick.
C29_CallbackUnderMutexes ==
    CallbackRunning =>
        /\ read_mutex = "h"
        /\ tap_mutex = "h"
        /\ LogHas("read")
        /\ rd.ret = 0
        /\ [data EXCEPT !.mag = << 0, 0, 0 >>]
             = [ReadDmpFifo(rd.before, 0, rd.inp).data EXCEPT !.mag = << 0, 0, 0 >>]

-----------------------------------------------------------------------------
(* The GPIO functions of gpio.c, for one pin. value_fd[pin] is "zero"      *)
(* while it holds 0, "open" while it holds a descriptor that open()        *)
(* returned and nothing has closed, "closed" once close() was called on    *)
(* that descriptor. A read() of a closed descriptor fails.                 *)

GOp(fn, ret) ==
    [fn |-> fn, ret |-> ret, fd0 |-> gpio.value_fd, init0 |-> gpio.init_flag]

\* close(value_fd[pin]): the number stays in the array
Closed(fd) == IF fd = "open" THEN "closed" ELSE fd

\* rc_gpio_unexport from the open of the unexport file on
AfterUnexport(g, o) ==
    IF o = "ok"
    THEN NoPin
    ELSE g

\* rc_gpio_unexport
GUnexport ==
    /\ \E o \in { "no_open", "no_write", "ok" } :
         /\ gpio' = AfterUnexport(gpio, o)
         /\ g_op' = GOp("unexport", IF o = "ok" THEN 0 ELSE -1)
    /\ UNCHANGED << su, mag_cal, gyro_regs, mag_rd, lateVars, i2c, b_op, bus_log, fw,
                    buildVars, lifeVars, calVars, fifoVars, i2c_lock, flagVars,
                    cbVars, syncVars, hVars, wVars, tVars, pVars >>

\* rc_gpio_export: a pin found exported is unexported first, whatever that
\* returns; then the export file is written, which makes the pin an input
\* without an edge, and the value file opened
GExport ==
    /\ \E u \in { "no_open", "ok" }, o \in { "no_open", "no_write", "no_value", "ok" } :
         LET g1 == IF gpio.sysfs THEN AfterUnexport(gpio, u) ELSE gpio
         IN  /\ ~gpio.sysfs => u = "ok"
             /\ gpio' = CASE o \in { "no_open", "no_write" } -> g1
                          [] o = "no_value" -> [g1 EXCEPT !.sysfs = TRUE, !.dir = "in"]
                          [] o = "ok" -> [sysfs |-> TRUE, dir |-> "in",
                                          edge |-> "none", value_fd |-> "open",
                                          init_flag |-> 1]
             /\ g_op' = GOp("export", IF o = "ok" THEN 0 ELSE -1)
    /\ UNCHANGED << su, mag_cal, gyro_regs, mag_rd, lateVars, i2c, b_op, bus_log, fw,
                    buildVars, lifeVars, calVars, fifoVars, i2c_lock, flagVars,
                    cbVars, syncVars, hVars, wVars, tVars, pVars >>

\* rc_gpio_set_dir gets as far as close(value_fd[pin]): the direction file
\* is there
SetDirCloses(o) == o # "no_access"

\* what rc_gpio_set_dir leaves of the pin and returns
AfterSetDir(g, dir, o) ==
    [g |-> IF SetDirCloses(o)
           THEN [g EXCEPT !.value_fd = Closed(g.value_fd),
                          !.dir = IF o = "ok" /\ dir \in { "in", "out" }
                                  THEN dir ELSE g.dir]
           ELSE g,
     ret |-> IF o = "ok" /\ dir \in { "in", "out" } THEN 0 ELSE -1]

\* rc_gpio_set_dir
GSetDir ==
    /\ \E dir \in { "in", "out", "other" }, o \in { "no_access", "no_open", "no_write", "ok" } :
         /\ (o = "no_access") <=> ~gpio.sysfs
         /\ dir = "other" => o = "ok"
         /\ gpio' = AfterSetDir(gpio, dir, o).g
         /\ g_op' = GOp("set_dir", AfterSetDir(gpio, dir, o).ret)
    /\ UNCHANGED << su, mag_cal, gyro_regs, mag_rd, lateVars, i2c, b_op, bus_log, fw,
                    buildVars, lifeVars, calVars, fifoVars, i2c_lock, flagVars,
                    cbVars, syncVars, hVars, wVars, tVars, pVars >>

\* rc_gpio_set_edge
GSetEdge ==
    /\ \E edge \in { "none", "rising", "falling", "both" }, o \in { "no_open", "no_write", "ok" } :
         LET done == gpio.init_flag = 1 /\ o = "ok"
         IN  /\ gpio' = IF done THEN [gpio EXCEPT !.edge = edge] ELSE gpio
             /\ g_op' = GOp("set_edge", IF done THEN 0 ELSE -1)
    /\ UNCHANGED << su, mag_cal, gyro_regs, mag_rd, lateVars, i2c, b_op, bus_log, fw,
                    buildVars, lifeVars, calVars, fifoVars, i2c_lock, flagVars,
                    cbVars, syncVars, hVars, wVars, tVars, pVars >>

\* what read(value_fd[pin], ch, 2) can give: the two bytes of a 0 or a 1,
\* fewer bytes, or -1
ReadOutcomes(fd) ==
    IF fd = "open" THEN { "0", "1", "short", "fail" } ELSE { "fail" }

\* rc_gpio_get_value returns the bit when read has given two bytes,
\* rc_gpio_print_value prints it when read has not given -1 (of fewer bytes
\* the first is taken to be there)
GRead ==
    /\ \E fn \in { "get_value", "print_value" }, r \in ReadOutcomes(gpio.value_fd) :
         g_op' = GOp(fn,
                     CASE gpio.init_flag = 0 -> -1
                       [] r = "fail" -> -1
                       [] r = "short" -> IF fn = "get_value" THEN -1 ELSE 0
                       [] fn = "get_value" -> IF r = "1" THEN 1 ELSE 0
                       [] OTHER -> 0)
    /\ UNCHANGED << gpio, su, mag_cal, gyro_regs, mag_rd, lateVars, i2c, b_op, bus_log, fw,
                    buildVars, lifeVars, calVars, fifoVars, i2c_lock, flagVars,
                    cbVars, syncVars, hVars, wVars, tVars, pVars >>

\* rc_gpio_get_value_fd: -1 without an export, else value_fd[pin], which
\* fd0 of the record describes
GGetValueFd ==
    /\ g_op' = GOp("get_value_fd", IF gpio.init_flag = 0 THEN -1 ELSE 0)
    /\ UNCHANGED << gpio, su, mag_cal, gyro_regs, mag_rd, lateVars, i2c, b_op, bus_log, fw,
                    buildVars, lifeVars, calVars, fifoVars, i2c_lock, flagVars,
                    cbVars, syncVars, hVars, wVars, tVars, pVars >>

Gpio == GExport \/ GUnexport \/ GSetDir \/ GSetEdge \/ GRead \/ GGetValueFd

NextGpio == Gpio

SpecGpio == InitLife /\ [][NextGpio]_vars

\* C28: after rc_gpio_export(pin) followed by a successful
\* rc_gpio_set_dir(pin, dir) the cached value descriptor of the pin is still
\* open, so rc_gpio_print_value, rc_gpio_get_value and the descriptor that
\* rc_gpio_get_value_fd returns work on an open descriptor.
C28_ValueDescriptorStaysOpen ==
    /\ (g_op.fn = "set_dir" /\ g_op.ret = 0 /\ g_op.init0 = 1 /\ g_op.fd0 = "open")
         => gpio.value_fd = "open"
    /\ (g_op.fn \in { "get_value", "print_value", "get_value_fd" } /\ g_op.init0 = 1)
         => g_op.fd0 = "open"

-----------------------------------------------------------------------------
(* rc_mpu_initialize_dmp step by step, with its arguments, the calibration  *)
(* files it loads and the packet length it leaves, called by one user       *)
(* thread beside the handler threads earlier calls have left.               *)

\* mpu.h is not among the sources; the limits the error messages of
\* rc_mpu_initialize_dmp print and the description give
DMP_MAX_RATE == 200

DMP_MIN_RATE == 4

\* sched_get_priority_min(SCHED_FIFO) and sched_get_priority_max(SCHED_FIFO)
\* of Linux
MinPri == 1

MaxPri == 99

\* sample rates the calls are made with
SetupRates == { -5, 0, 150, 200 }

\* the arguments the calls are made with: every rate of SetupRates, 200 with
\* and without the magnetometer and the raw data, and one call each with a
\* compass_time_constant (kept in tenths) and a priority that are refused
SetupConfigs ==
    { c \in [enable_magnetometer : BOOLEAN, read_mag_after_callback : { TRUE },
             mag_sample_rate_div : { 4 }, dmp_sample_rate : SetupRates,
             dmp_fetch_accel_gyro : BOOLEAN, dmp_auto_calibrate_gyro : { FALSE },
             compass_time_constant : { 1, 200 },
             dmp_interrupt_priority : { 0, MaxPri - 1 }] :
        /\ c.dmp_sample_rate # 200
             => (~c.enable_magnetometer /\ ~c.dmp_fetch_accel_gyro)
        /\ c.compass_time_constant = 1
             => (c.enable_magnetometer /\ c.dmp_sample_rate = 200 /\ ~c.dmp_fetch_accel_gyro
                 /\ c.dmp_interrupt_priority = MaxPri - 1)
        /\ c.dmp_interrupt_priority = 0
             => (~c.enable_magnetometer /\ c.dmp_sample_rate = 200
                 /\ ~c.dmp_fetch_accel_gyro) }

RateOkMut(rate) == ~(rate > DMP_MAX_RATE \/ rate < DMP_MIN_RATE)

\* the two tests of dmp_sample_rate: the range, then DMP_MAX_RATE % rate
RateOk(rate) ==
    IF rate > DMP_MAX_RATE \/ rate < DMP_MIN_RATE
    THEN FALSE
    ELSE DMP_MAX_RATE % rate = 0

\* the argument checks in their order: the first that fails, or "none"
ArgFault(conf) ==
    CASE ~RateOk(conf.dmp_sample_rate) -> "rate"
      [] conf.enable_magnetometer /\ conf.compass_time_constant <= 1 -> "compass"
      [] conf.dmp_interrupt_priority > MaxPri \/ conf.dmp_interrupt_priority < MinPri
           -> "priority"
      [] OTHER -> "none"

\* the call ends with result r, on account of why
SReturn(r, why) ==
    su' = [su EXCEPT !.pc = "ret", !.ret = r, !.fail = why]

\* the call goes on to stage pc
SGoto(pc) == su' = [su EXCEPT !.pc = pc]

\* a stage that ends the call with -1 after rc_i2c_unlock_bus when it
\* fails, and changes nothing else the model keeps
SPlainStage(ok, next, why) ==
    IF ok
    THEN SGoto(next) /\ UNCHANGED i2c_lock
    ELSE SReturn(-1, why) /\ i2c_lock' = 0

\* the call and its argument checks; config = conf once they have passed,
\* and the rate is kept there
SCall ==
    /\ su.pc \in { "idle", "ret" }
    /\ Len(threads) < MaxThreads
    /\ \E conf \in SetupConfigs :
         LET entry == [pc |-> "bus", ret |-> 0, rate |-> conf.dmp_sample_rate,
                       io |-> FALSE, fail |-> "none"]
         IN  IF ArgFault(conf) # "none"
             THEN /\ su' = [entry EXCEPT !.pc = "ret", !.ret = -1,
                                         !.fail = ArgFault(conf)]
                  /\ UNCHANGED config
             ELSE /\ su' = [entry EXCEPT !.rate = 0]
                  /\ config' = conf
    /\ UNCHANGED << gpio, g_op, mag_cal, gyro_regs, mag_rd, lateVars, i2c, b_op, bus_log, fw,
                    long_bits, char_signed, packet_len, dmp_en, lifeVars, calVars,
                    fifoVars, i2c_lock, flagVars, cbVars, syncVars, hVars, wVars,
                    tVars, pVars >>

\* rc_i2c_init, which leaves the lock set when it fails
SBus ==
    /\ su.pc = "bus"
    /\ \E ok \in BOOLEAN :
         IF ok
         THEN su' = [su EXCEPT !.pc = "gpio", !.io = TRUE] /\ UNCHANGED i2c_lock
         ELSE /\ su' = [su EXCEPT !.pc = "ret", !.ret = -1, !.fail = "bus", !.io = TRUE]
              /\ i2c_lock' = 1
    /\ UNCHANGED << gpio, g_op, mag_cal, gyro_regs, mag_rd, lateVars, i2c, b_op, bus_log, fw,
                    buildVars, lifeVars, calVars, fifoVars, flagVars, cbVars,
                    syncVars, hVars, wVars, tVars, pVars >>

\* the pin after rc_gpio_export has succeeded
Exported ==
    [sysfs |-> TRUE, dir |-> "in", edge |-> "none", value_fd |-> "open",
     init_flag |-> 1]

\* rc_gpio_export, which may fail, rc_gpio_set_dir(GPIO_INPUT_PIN) and
\* rc_gpio_set_edge(GPIO_EDGE_FALLING); then rc_i2c_lock_bus
SGpio ==
    /\ su.pc = "gpio"
    /\ \E o \in { "export", "ok" } :
         /\ gpio' = CASE o = "export" -> (IF gpio.sysfs THEN NoPin ELSE gpio)
                      [] o = "ok" -> [AfterSetDir(Exported, "in", "ok").g
                                         EXCEPT !.edge = "falling"]
         /\ IF o = "ok"
            THEN SGoto("reset") /\ i2c_lock' = 1
            ELSE SReturn(-1, "gpio") /\ UNCHANGED i2c_lock
    /\ UNCHANGED << g_op, mag_cal, gyro_regs, mag_rd, lateVars, i2c, b_op, bus_log, fw,
                    buildVars, lifeVars, calVars, fifoVars, flagVars, cbVars,
                    syncVars, hVars, wVars, tVars, pVars >>

\* __reset_mpu9250, which sets imu_shutdown_flag, then __check_who_am_i and
\* the write of ACCEL_CONFIG_2
SReset ==
    /\ su.pc = "reset"
    /\ imu_shutdown_flag' = 1
    /\ \E ok \in BOOLEAN : SPlainStage(ok, "gyro", "reset")
    /\ UNCHANGED << gpio, g_op, mag_cal, gyro_regs, mag_rd, lateVars, i2c, b_op, bus_log, fw,
                    buildVars, lifeVars, calVars, fifoVars, thread_running_flag,
                    last_read_successful, cbVars, syncVars, hVars, wVars, tVars,
                    pVars >>

\* C integer division, which truncates toward zero
TruncDiv(a, b) == IF a >= 0 THEN a \div b ELSE -((-a) \div b)

\* the two bytes (-x/4 >> 8) & 0xFF and (-x/4) & 0xFF
OffsetBytes(x) ==
    LET v == TruncDiv(-x, 4)
    IN  << (v % 65536) \div 256, v % 256 >>

\* x, y, z as __load_gyro_offets has them after the file: 0 when there is
\* none, else what fscanf stored, the file holding three numbers
GyroOffsets(file) == IF file = << >> THEN << 0, 0, 0 >> ELSE file

\* __load_gyro_offets: the six bytes go to XG_OFFSET_H
SGyro ==
    /\ su.pc = "gyro"
    /\ \E xyz \in { GyroOffsets(gyro_file) }, ok \in BOOLEAN :
         /\ gyro_regs' = IF ok
                         THEN OffsetBytes(xyz[1]) \o OffsetBytes(xyz[2])
                                \o OffsetBytes(xyz[3])
                         ELSE gyro_regs
         /\ SPlainStage(ok, "mag", "gyro_write")
    /\ UNCHANGED << gpio, g_op, mag_cal, mag_rd, lateVars, i2c, b_op, bus_log, fw,
                    buildVars, lifeVars, calVars, fifoVars, flagVars, cbVars,
                    syncVars, hVars, wVars, tVars, pVars >>

\* mag_offsets and mag_scales as __load_mag_calibration leaves them: 0 and
\* 1.0 without a file, else what fscanf stored, the file holding six numbers
MagCalibration(file) ==
    IF file = << >>
    THEN [offsets |-> << 0, 0, 0 >>, scales |-> << FOne, FOne, FOne >>]
    ELSE [offsets |-> file.offsets, scales |-> file.scale]

\* the writes of the filters, the sample rate and the bypass ("write" when
\* one fails); then __init_magnetometer, which fails before it loads the
\* calibration ("mag") or loads it and returns 0 whatever the load returns,
\* or __power_off_magnetometer, whose result is not looked at
SMag ==
    /\ su.pc = "mag"
    /\ \E o \in { "write", "mag", "ok" } :
         /\ o = "mag" => config.enable_magnetometer
         /\ IF o = "ok" /\ config.enable_magnetometer
            THEN mag_cal' = MagCalibration(mag_file)
            ELSE UNCHANGED mag_cal
         /\ SPlainStage(o = "ok", "firmware", o)
    /\ UNCHANGED << gpio, g_op, gyro_regs, mag_rd, lateVars, i2c, b_op, bus_log, fw,
                    buildVars, lifeVars, calVars, fifoVars, flagVars, cbVars,
                    syncVars, hVars, wVars, tVars, pVars >>

\* dmp_en = 1, __dmp_load_motion_driver_firmware, __dmp_set_orientation
SFirmware ==
    /\ su.pc = "firmware"
    /\ dmp_en' = 1
    /\ \E ok \in BOOLEAN : SPlainStage(ok, "features", "firmware")
    /\ UNCHANGED << gpio, g_op, mag_cal, gyro_regs, mag_rd, lateVars, i2c, b_op, bus_log, fw,
                    long_bits, char_signed, packet_len, config, lifeVars, calVars,
                    fifoVars, flagVars, cbVars, syncVars, hVars, wVars, tVars,
                    pVars >>

\* the feature mask rc_mpu_initialize_dmp assembles
FeatureMask(conf) ==
    { "6X_LP_QUAT", "TAP" }
      \cup (IF conf.dmp_auto_calibrate_gyro THEN { "GYRO_CAL" } ELSE { })
      \cup (IF conf.dmp_fetch_accel_gyro
            THEN { "SEND_RAW_ACCEL", "SEND_ANY_GYRO" } ELSE { })

\* __dmp_enable_feature up to packet_len = 0: the writes, any of which may
\* fail, and __mpu_reset_fifo
SFeatures ==
    /\ su.pc = "features"
    /\ \E ok \in BOOLEAN :
         /\ SPlainStage(ok, "len_accel", "features")
         /\ packet_len' = IF ok THEN 0 ELSE packet_len
    /\ UNCHANGED << gpio, g_op, mag_cal, gyro_regs, mag_rd, lateVars, i2c, b_op, bus_log, fw,
                    long_bits, char_signed, dmp_en, config, lifeVars, calVars,
                    fifoVars, flagVars, cbVars, syncVars, hVars, wVars, tVars,
                    pVars >>

LenAddedMut(mask, stage) ==
    CASE stage = "len_accel" -> IF "SEND_RAW_ACCEL" \in mask THEN 6 ELSE 0
      [] stage = "len_gyro" -> 0
      [] stage = "len_quat" -> 16
      [] stage = "len_tap" -> 4

\* what each of the four tests on the mask adds to packet_len
LenAdded(mask, stage) ==
    CASE stage = "len_accel" -> IF "SEND_RAW_ACCEL" \in mask THEN 6 ELSE 0
      [] stage = "len_gyro" -> IF "SEND_ANY_GYRO" \in mask THEN 6 ELSE 0
      [] stage = "len_quat" ->
           IF mask \cap { "LP_QUAT", "6X_LP_QUAT" } # { } THEN 16 ELSE 0
      [] stage = "len_tap" ->
           IF mask \cap { "TAP", "ANDROID_ORIENT" } # { } THEN 4 ELSE 0

LenStages == << "len_accel", "len_gyro", "len_quat", "len_tap", "rate" >>

\* one of the four additions to packet_len that end __dmp_enable_feature
SLen ==
    /\ \E k \in 1..4 :
         /\ su.pc = LenStages[k]
         /\ packet_len' = packet_len + LenAdded(FeatureMask(config), su.pc)
         /\ SGoto(LenStages[k + 1])
    /\ UNCHANGED << gpio, g_op, mag_cal, gyro_regs, mag_rd, lateVars, i2c, b_op, bus_log, fw,
                    long_bits, char_signed, dmp_en, config, lifeVars, calVars,
                    fifoVars, i2c_lock, flagVars, cbVars, syncVars, hVars, wVars,
                    tVars, pVars >>

\* __dmp_set_fifo_rate(config.dmp_sample_rate), which refuses a rate above
\* DMP_MAX_RATE, __mpu_set_dmp_state(1), __dmp_set_interrupt_mode
SRate ==
    /\ su.pc = "rate"
    /\ \E ok \in BOOLEAN :
         SPlainStage(ok /\ ~(config.dmp_sample_rate > DMP_MAX_RATE), "start", "rate_write")
    /\ UNCHANGED << gpio, g_op, mag_cal, gyro_regs, mag_rd, lateVars, i2c, b_op, bus_log, fw,
                    buildVars, lifeVars, calVars, fifoVars, flagVars, cbVars,
                    syncVars, hVars, wVars, tVars, pVars >>

\* rc_i2c_unlock_bus; tap_detected = 0; imu_shutdown_flag = 0; callbacks
\* NULL; pthread_create; thread_running_flag = 1; return 0
SStart ==
    /\ su.pc = "start"
    /\ i2c_lock' = 0
    /\ data' = [data EXCEPT !.tap_detected = 0]
    /\ imu_shutdown_flag' = 0
    /\ dmp_callback_func' = FALSE
    /\ tap_callback_func' = FALSE
    /\ threads' = Append(threads, "alive")
    /\ thread_running_flag' = 1
    /\ SReturn(0, "none")
    /\ UNCHANGED << gpio, g_op, mag_cal, gyro_regs, mag_rd, lateVars, i2c, b_op, bus_log, fw,
                    buildVars, pwr, l_pc, l_kind, l_ret, l_fail, l_who, l_n0, life,
                    calVars, fifo_first_run, rd, last_read_successful, syncVars,
                    hVars, wVars, tVars, pVars >>

Setup ==
    SCall \/ SBus \/ SGpio \/ SReset \/ SGyro \/ SMag \/ SFirmware \/ SFeatures
      \/ SLen \/ SRate \/ SStart

\* the calibration files are there when the first call is made, each with
\* its numbers, a zero among the scales
SFiles ==
    /\ su.pc = "idle"
    /\ gyro_file = << >> /\ mag_file = << >>
    /\ gyro_file' = << 40, -9, 1024 >>
    /\ mag_file' = [offsets |-> << 10, -20, 5 >>,
                    scale |-> << << 7, 5 >>, << 6, 5 >>, FZero >>,
                    warned |-> FALSE]
    /\ UNCHANGED << ioVars, buildVars, lifeVars, c_pc, c_kind, c_ret, c_i, c_steady,
                    c_noisy, c_failed, c_xfer, c_lock0, c_fit, fifoVars, i2c_lock,
                    flagVars, cbVars, syncVars, hVars, wVars, tVars, pVars >>

\* the scale factors after the three tests if(mag_scales[k]==0.0)
NonZeroScalesMut(scales) == scales

NonZeroScales(scales) ==
    [k \in 1..3 |-> IF scales[k][1] = 0 THEN FOne ELSE scales[k]]

\* factory_cal_data of the reading the model takes
FactoryCalData == << 30, -15, 10 >>

\* x * s for a fraction s; the values the model takes leave no remainder
Scaled(x, s) == (x * s[1]) \div s[2]

\* the data-ready bit of ST1 and the overflow bit of ST2
MAG_DATA_READY == 1

MAGNETOMETER_SATURATION == 8

\* x & bit for a single-bit mask
BitSet(x, bit) == (x \div bit) % 2 = 1

\* the bytes the magnetometer answers with: ST1 with the ready bit clear (0,
\* and 2 with only the overrun bit), set (1, 3); ST2 with the overflow bit
\* clear (0, and 16 with only the output-width bit) and set (8, 24)
St1Bytes == { 0, 1, 2, 3 }

St2Bytes == { 0, 8, 16, 24 }

DataReadyMut(st1) == st1 # 0

\* st1&MAG_DATA_READY
DataReady(st1) == BitSet(st1, MAG_DATA_READY)

\* raw[6]&MAGNETOMETER_SATURATION
Saturated(st2) == BitSet(st2, MAGNETOMETER_SATURATION)

\* what a call meets: the transfer that fails, if any, and the bytes read
\* by those that do not (0 for a byte that is not read)
MagAnswers ==
    { a \in [xfer : { "ok", "no_st1", "no_data" }, st1 : St1Bytes, st2 : St2Bytes] :
        /\ a.xfer = "no_st1" => a.st1 = 0
        /\ (a.xfer # "ok" \/ ~BitSet(a.st1, 1)) => a.st2 = 0 }

\* rc_mpu_read_mag returning before the record is touched
MagLeave(r, st1, st2) ==
    /\ mr' = [ret |-> r, st1 |-> st1, st2 |-> st2]
    /\ mag_rd' = << >>
    /\ UNCHANGED << mag_cal, data >>

\* rc_mpu_read_mag called by the user thread between calls: -1 with the
\* magnetometer not enabled or a transfer failing, 0 with nothing stored when
\* ST1 says no sample is ready, -1 when ST2 says it overflowed, else the
\* reading (f - mag_offsets[k]) * mag_scales[k] stored in the record
SReadMag ==
    /\ su.pc \in { "idle", "ret" }
    /\ \E a \in MagAnswers :
         LET xfer == a.xfer
             st1 == a.st1
             st2 == a.st2
         IN
         IF ~config.enable_magnetometer \/ xfer = "no_st1"
         THEN MagLeave(-1, -1, -1)
         ELSE IF ~DataReady(st1)
         THEN MagLeave(0, st1, -1)
         ELSE IF xfer = "no_data"
         THEN MagLeave(-1, st1, -1)
         ELSE IF Saturated(st2)
         THEN MagLeave(-1, st1, st2)
         ELSE LET s == NonZeroScales(mag_cal.scales)
              IN  /\ mr' = [ret |-> 0, st1 |-> st1, st2 |-> st2]
                  /\ mag_cal' = [mag_cal EXCEPT !.scales = s]
                  /\ mag_rd' = s
                  /\ data' = [data EXCEPT !.mag =
                               [k \in 1..3 |->
                                  Scaled(FactoryCalData[k] - mag_cal.offsets[k], s[k])]]
    /\ UNCHANGED << gpio, g_op, su, gyro_regs, fus, c_log, i2c, b_op, bus_log, fw,
                    buildVars, lifeVars, calVars, fifo_first_run, rd, i2c_lock,
                    flagVars, cbVars, syncVars, hVars, wVars, tVars, pVars >>

\* what the FIFO holds when a thread reads it: one packet of 20 bytes
SetupInputs ==
    { BusInput(TRUE, FIFO_LEN_QUAT_TAP, "ok", "ok",
               QuatBytes(QId) \o << 0, 1, 0, 9 >>) }

\* thread k finds imu_shutdown_flag clear after poll and an interrupt there
SThreadWake(k) ==
    /\ threads[k] = "alive"
    /\ imu_shutdown_flag # 1
    /\ threads' = [threads EXCEPT ![k] = "woken"]
    /\ UNCHANGED << ioVars, buildVars, pwr, l_pc, l_kind, l_ret, l_fail, l_who,
                    l_n0, life, calVars, fifoVars, i2c_lock, flagVars, cbVars,
                    syncVars, hVars, wVars, tVars, pVars >>

\* thread k goes on: rc_i2c_lock_bus, __read_dmp_fifo, rc_i2c_unlock_bus,
\* last_read_successful
SThreadRead(k) ==
    /\ threads[k] = "woken"
    /\ \E inp \in SetupInputs :
         LET r == ReadDmpFifo(data, fifo_first_run, inp)
         IN  /\ rd' = ReadResult(inp, data, r)
             /\ data' = r.data
             /\ fifo_first_run' = r.first_run
             /\ last_read_successful' = IF r.ret = 0 THEN 1 ELSE 0
    /\ i2c_lock' = 0
    /\ threads' = [threads EXCEPT ![k] = "alive"]
    /\ UNCHANGED << ioVars, buildVars, pwr, l_pc, l_kind, l_ret, l_fail, l_who,
                    l_n0, life, calVars, imu_shutdown_flag, thread_running_flag,
                    cbVars, syncVars, hVars, wVars, tVars, pVars >>

\* thread k finds imu_shutdown_flag set and leaves its loop
SThreadLeave(k) ==
    /\ threads[k] = "alive"
    /\ imu_shutdown_flag = 1
    /\ threads' = [threads EXCEPT ![k] = "exited"]
    /\ UNCHANGED << ioVars, buildVars, pwr, l_pc, l_kind, l_ret, l_fail, l_who,
                    l_n0, life, calVars, fifoVars, i2c_lock, flagVars, cbVars,
                    syncVars, hVars, wVars, tVars, pVars >>

SThread ==
    \E k \in 1..Len(threads) : SThreadWake(k) \/ SThreadRead(k) \/ SThreadLeave(k)

\* a user thread that calls rc_mpu_initialize_dmp and rc_mpu_read_mag, the
\* handler threads not running
NextSetup == Setup \/ SFiles \/ SReadMag

SpecSetup == InitLife /\ [][NextSetup]_vars

\* a user thread that calls rc_mpu_initialize_dmp, and the handler threads
NextPacket == Setup \/ SThread

SpecPacket == InitLife /\ [][NextPacket]_vars

\* the step in which the user thread calls rc_mpu_initialize_dmp
SetupCallStep == su.pc \in { "idle", "ret" } /\ su' # su

\* the sample rate that call was made with
AskedRate == IF su'.pc = "ret" THEN su'.rate ELSE config'.dmp_sample_rate

\* C23: rc_mpu_initialize_dmp accepts a dmp_sample_rate if and only if it
\* is one of 200, 100, 50, 40, 25, 20, 10, 8, 5, 4; for any other value, 0
\* and negative values among them, it returns -1 before any GPIO or I2C
\* access and without changing the stored configuration, the shutdown flag
\* or the bus lock.
C23_SampleRateChecked ==
    [][ SetupCallStep =>
          /\ AskedRate \notin { 200, 100, 50, 40, 25, 20, 10, 8, 5, 4 }
               => /\ su'.pc = "ret"
                  /\ su'.ret = -1
                  /\ ~su'.io
                  /\ gpio' = gpio
                  /\ i2c' = i2c
                  /\ config' = config
                  /\ imu_shutdown_flag' = imu_shutdown_flag
                  /\ i2c_lock' = i2c_lock
          /\ AskedRate \in { 200, 100, 50, 40, 25, 20, 10, 8, 5, 4 }
               => su'.fail # "rate"
          /\ su.pc = "idle"
               => \A r \in -10..410 :
                    RateOk(r) <=> r \in { 200, 100, 50, 40, 25, 20, 10, 8, 5, 4 }
      ]_vars

\* after a call with the rate 200 that was accepted, a call with the rate 0
\* has been refused and has left the configuration of the first
C23_Witness ==
    /\ su.pc = "ret"
    /\ su.fail = "rate"
    /\ su.rate = 0
    /\ su.ret = -1
    /\ config # DefaultConfig
    /\ config.dmp_sample_rate = 200

\* C27: when the gyro or magnetometer calibration file is missing,
\* initialization does not fail on that account: zero gyro offsets are
\* written to the offset registers and the magnetometer uses offsets 0 and
\* scales 1.0, so no magnetometer scale factor is ever zero when a reading
\* is scaled.
C27_MissingFilesGiveDefaults ==
    [][ /\ (su.pc = "gyro" /\ su'.pc # "gyro" /\ gyro_file = << >>)
             => /\ su'.pc = "mag" => gyro_regs' = << 0, 0, 0, 0, 0, 0 >>
                /\ su'.pc = "ret" => (su'.fail = "gyro_write" /\ gyro_regs' = gyro_regs)
        /\ (su.pc = "mag" /\ su'.pc = "firmware" /\ config.enable_magnetometer
              /\ mag_file = << >>)
             => mag_cal' = [offsets |-> << 0, 0, 0 >>,
                            scales |-> << << 1, 1 >>, << 1, 1 >>, << 1, 1 >> >>]
        /\ mag_rd' # << >> => \A k \in 1..3 : mag_rd'[k][1] # 0
        /\ (mag_rd' # << >> /\ mag_rd' # mag_rd)
             => /\ mag_cal'.scales = mag_rd'
                /\ \A k \in 1..3 :
                     /\ ((FactoryCalData[k] - mag_cal.offsets[k]) * mag_rd'[k][1])
                           % mag_rd'[k][2] = 0
                     /\ data'.mag[k] * mag_rd'[k][2]
                          = (FactoryCalData[k] - mag_cal.offsets[k]) * mag_rd'[k][1]
      ]_vars

\* with neither file there a call with the magnetometer enabled has returned
\* 0, zero offsets are in the registers, and a reading was scaled by 1.0
C27_Witness ==
    /\ su.pc = "ret"
    /\ su.ret = 0
    /\ gyro_file = << >>
    /\ mag_file = << >>
    /\ config.enable_magnetometer
    /\ gyro_regs = << 0, 0, 0, 0, 0, 0 >>
    /\ mag_cal.offsets = << 0, 0, 0 >>
    /\ mag_rd = << << 1, 1 >>, << 1, 1 >>, << 1, 1 >> >>
    /\ data.mag = << 30, -15, 10 >>

\* the step in which a handler thread calls __read_dmp_fifo
ThreadReadStep ==
    \E k \in 1..Len(threads) : threads[k] = "woken" /\ threads'[k] = "alive"

\* C30: after every successful rc_mpu_initialize_dmp, packet_len equals
\* 16 + 4 plus 6 for accel and 6 for gyro when dmp_fetch_accel_gyro is set,
\* hence is exactly 20 or 32, and __read_dmp_fifo refuses to parse whenever
\* packet_len has any other value.
C30_PacketLength ==
    [][ /\ (su'.pc = "ret" /\ su'.ret = 0)
             => /\ packet_len' = 16 + 4 + (IF config'.dmp_fetch_accel_gyro
                                           THEN 6 + 6 ELSE 0)
                /\ packet_len' \in { 20, 32 }
        /\ (ThreadReadStep /\ packet_len \notin { 20, 32 })
             => /\ rd'.called
                /\ rd'.ret = -1
                /\ rd'.fifo_count = -1
                /\ rd'.bulk = 0
                /\ data' = data
                /\ last_read_successful' = 0
      ]_vars

\* a call asking for accel and gyro has returned 0 with 32 bytes to the
\* packet, and the last read of a thread that an earlier call had left was
\* refused before the FIFO count was read
C30_Witness ==
    /\ su.pc = "ret"
    /\ su.ret = 0
    /\ config.dmp_fetch_accel_gyro
    /\ packet_len = 32
    /\ dmp_en = 1
    /\ rd.called
    /\ rd.ret = -1
    /\ rd.fifo_count = -1
\* C40: rc_mpu_read_mag leaves the magnetometer fields of the record as they
\* were when the data-ready bit of ST1 is clear (the read is skipped, 0 is
\* returned) and when the overflow bit of ST2 is set (the sample is
\* discarded); the fields change only in a call that read ST1 with bit 0 set
\* and ST2 with bit 3 clear.
C40_MagWrittenOnlyWhenReady ==
    [][ /\ (mr'.st1 # -1 /\ mr'.st1 % 2 = 0)
             => (data'.mag = data.mag /\ mr'.ret = 0)
        /\ (mr'.st2 # -1 /\ (mr'.st2 \div 8) % 2 = 1)
             => (data'.mag = data.mag /\ mr'.ret = -1)
        /\ data'.mag # data.mag
             => /\ mr'.ret = 0
                /\ mr'.st1 % 2 = 1
                /\ mr'.st2 # -1
                /\ (mr'.st2 \div 8) % 2 = 0
      ]_vars

\* a sample was stored, and the call after it found only the overrun bit in
\* ST1: it returned 0 and the stored sample is still in the record
C40_Witness ==
    /\ config.enable_magnetometer
    /\ mr = [ret |-> 0, st1 |-> 2, st2 |-> -1]
    /\ data.mag = << 30, -15, 10 >>
-----------------------------------------------------------------------------
(* The yaw fusion of __data_fusion (mpu.c:2171-2303), called by            *)
(* __read_dmp_fifo for every new packet while the magnetometer is enabled. *)
(* Angles are integers on a grid on which the values of type float are the *)
(* multiples of FloatStep; the double constant M_PI is no float and lies   *)
(* between two of them, nearer the upper one, as 3.14159265358979 lies     *)
(* between the floats 3.14159250 and 3.14159274. The two filters are made  *)
(* by rc_filter_first_order_lowpass / _highpass and stepped by             *)
(* rc_filter_march, whose code is not in mpu.c: the model keeps what each  *)
(* filter was made and prefilled with and takes the sum of the two outputs *)
(* from a set of floats.                                                   *)

\* fusion ticks in a run
MaxFusionTicks == 3

\* distance between two neighbouring floats, in grid units
FloatStep == 8

\* #define PI M_PI
PI == 29

\* #define TWO_PI (2.0 * M_PI)
TWO_PI == 2 * PI

\* a double stored in a float: the nearest float, the even one on a tie
ToFloat(x) ==
    LET lo == (x \div FloatStep) * FloatStep
        r == x - lo
    IN  IF x = NaN THEN NaN
        ELSE IF 2 * r < FloatStep THEN lo
        ELSE IF 2 * r > FloatStep THEN lo + FloatStep
        ELSE IF (lo \div FloatStep) % 2 = 0 THEN lo
        ELSE lo + FloatStep

\* fmod(x, y) of C for y > 0: the remainder with the sign of x
Fmod(x, y) == IF x >= 0 THEN x % y ELSE -((-x) % y)

WrapYawMut(s) ==
    LET r == ToFloat(Fmod(s, TWO_PI))
    IN  IF r < -PI THEN ToFloat(r + TWO_PI) ELSE r

\* newYaw = fmod(newYaw,TWO_PI); if (newYaw > PI) newYaw -= TWO_PI;
\* else if (newYaw < -PI) newYaw += TWO_PI;  with float newYaw
WrapYaw(s) ==
    LET r == ToFloat(Fmod(s, TWO_PI))
    IN  IF r > PI THEN ToFloat(r - TWO_PI)
        ELSE IF r < -PI THEN ToFloat(r + TWO_PI)
        ELSE r

SpinMut(counter, new, last) ==
    IF new = NaN \/ last = NaN THEN counter
    ELSE IF new - last < -PI THEN counter + 1
    ELSE counter

\* if(new-last < -PI) counter++; else if (new-last > PI) counter--;
\* (both tests are false when last is NaN)
Spin(counter, new, last) ==
    IF new = NaN \/ last = NaN THEN counter
    ELSE IF new - last < -PI THEN counter + 1
    ELSE IF new - last > PI THEN counter - 1
    ELSE counter

\* a filter made for the sample rate and time constant and prefilled
Filter(rate, tc, in, out) == [rate |-> rate, tc |-> tc, in |-> in, out |-> out]

\* -atan2(mag_vec[1], mag_vec[0]) as a float: -float(pi), values within, or
\* NaN
MagYaws == { -32, -24, 24, NaN }

\* data->dmp_TaitBryan[TB_YAW_Z]
DmpYaws == { -24, 24 }

\* rc_filter_march(&low_pass, ..) + rc_filter_march(&high_pass, ..)
MarchSums == { -88, -32, 0, 32, 40, 64 }

\* __data_fusion on the statics f with the magnetometer yaw my, the DMP yaw
\* dy and the filters answering with the sum s; config.orient is one of the
\* six the switch knows
DataFusion(f, my, dy, s) ==
    LET got == [f EXCEPT !.ticks = @ + 1, !.newMagYaw = my]
        mag1 == Spin(f.mag_spin_counter, my, f.newMagYaw)
        dmp1 == Spin(f.dmp_spin_counter, dy, f.newDMPYaw)
        first == f.first_run # 0
        rate == config.dmp_sample_rate
        tc == config.compass_time_constant
    IN  IF my = NaN
        THEN [got EXCEPT !.ret = -1]
        ELSE [got EXCEPT
                !.compass_heading_raw = my,
                !.newDMPYaw = dy,
                !.mag_spin_counter = IF first THEN 0 ELSE mag1,
                !.dmp_spin_counter = IF first THEN 0 ELSE dmp1,
                !.low_pass = IF first THEN Filter(rate, tc, my, my) ELSE @,
                !.high_pass = IF first THEN Filter(rate, tc, dy, 0) ELSE @,
                !.first_run = 0,
                !.newYaw = s,
                !.compass_heading = WrapYaw(s),
                !.ret = 0,
                !.fresh = FALSE]

\* the configurations rc_mpu_initialize_dmp is called with
FusionConfigs ==
    { [DefaultConfig EXCEPT !.enable_magnetometer = TRUE] @@ c :
        c \in [dmp_sample_rate : { 100, 200 }, compass_time_constant : { 20 }] }
      \cup { DefaultConfig @@ [dmp_sample_rate |-> 100, compass_time_constant |-> 20] }

\* rc_mpu_initialize_dmp returning 0, in one step: config = conf,
\* __reset_mpu9250, the DMP set up and the interrupt thread started
FInitDmp ==
    /\ thread_running_flag = 0
    /\ \E conf \in FusionConfigs : config' = conf
    /\ dmp_en' = 1
    /\ packet_len' = FIFO_LEN_QUAT_TAP
    /\ imu_shutdown_flag' = 0
    /\ thread_running_flag' = 1
    /\ fus' = [fus EXCEPT !.fresh = config'.enable_magnetometer]
    /\ UNCHANGED << gpio, g_op, su, mag_cal, gyro_regs, mag_rd, mr, c_log, i2c, b_op,
                    bus_log, fw, long_bits, char_signed, lifeVars, calVars,
                    fifoVars, i2c_lock, last_read_successful, cbVars, syncVars,
                    hVars, wVars, tVars, pVars >>

\* a packet read by the interrupt thread: if(is_new_dmp_data &&
\* config.enable_magnetometer) __data_fusion(data)
FTick ==
    /\ thread_running_flag = 1
    /\ imu_shutdown_flag = 0
    /\ config.enable_magnetometer
    /\ fus.ticks < MaxFusionTicks
    /\ \E my \in MagYaws, dy \in DmpYaws, s \in MarchSums :
         fus' = DataFusion(fus, my, dy, s)
    /\ UNCHANGED << gpio, g_op, su, mag_cal, gyro_regs, mag_rd, mr, c_log, i2c, b_op,
                    bus_log, fw, buildVars, lifeVars, calVars, fifoVars,
                    i2c_lock, flagVars, cbVars, syncVars, hVars, wVars, tVars,
                    pVars >>

\* rc_mpu_power_off returning 0 with the interrupt thread joined
FPowerOff ==
    /\ thread_running_flag = 1
    /\ imu_shutdown_flag' = 1
    /\ thread_running_flag' = 0
    /\ destroyed' = TRUE
    /\ UNCHANGED << ioVars, buildVars, lifeVars, calVars, fifoVars, i2c_lock,
                    last_read_successful, cbVars, read_mutex, tap_mutex, hVars,
                    wVars, tVars, pVars >>

NextFusion == FInitDmp \/ FTick \/ FPowerOff

SpecFusion == InitLife /\ [][NextFusion]_vars

\* a call of __data_fusion
FusionTick == fus'.ticks = fus.ticks + 1

\* C31: every fused yaw the fusion step stores in the record (compass_heading
\* and fused_TaitBryan[2], the same value) is greater than -pi and at most
\* pi, whatever sum the two filters give.
C31_FusedYawInRange ==
    /\ -PI < fus.compass_heading
    /\ fus.compass_heading <= PI

\* the filters gave float(pi), which is above M_PI, and the tick stored the
\* float next above -M_PI
C31_Witness ==
    /\ fus.ret = 0
    /\ fus.newYaw = 32
    /\ fus.compass_heading = -24

\* C39: on every fusion tick after the first the spin counter of the
\* magnetometer yaw, and likewise that of the DMP yaw, goes up by one when
\* the new yaw minus the previous yaw is below -pi, down by one when it is
\* above pi, and stays as it was otherwise.
C39_SpinCounters ==
    [][ (FusionTick /\ fus.first_run = 0 /\ fus'.ret = 0)
          => /\ fus'.mag_spin_counter - fus.mag_spin_counter
                  = (IF fus.newMagYaw = NaN THEN 0
                     ELSE IF fus'.newMagYaw - fus.newMagYaw < -PI THEN 1
                     ELSE IF fus'.newMagYaw - fus.newMagYaw > PI THEN -1
                     ELSE 0)
             /\ fus'.dmp_spin_counter - fus.dmp_spin_counter
                  = (IF fus'.newDMPYaw - fus.newDMPYaw < -PI THEN 1
                     ELSE IF fus'.newDMPYaw - fus.newDMPYaw > PI THEN -1
                     ELSE 0)
      ]_vars

\* after two ticks the magnetometer yaw has gone from 24 to -24 and the DMP
\* yaw from -24 to 24: one counter is 1, the other -1
C39_Witness ==
    /\ fus.ticks = 2
    /\ fus.ret = 0
    /\ fus.newMagYaw = -24
    /\ fus.newDMPYaw = 24
    /\ fus.mag_spin_counter = 1
    /\ fus.dmp_spin_counter = -1

\* C35: after each rc_mpu_initialize_dmp that returned 0 with the
\* magnetometer enabled, the first fusion tick makes the two filters from
\* the dmp_sample_rate and compass_time_constant now in config, prefills
\* them from the yaw values of that tick and sets both spin counters to 0,
\* also after rc_mpu_power_off and a second initialisation in the process.
C35_FirstTickBuildsFilters ==
    [][ (FusionTick /\ fus.fresh /\ fus'.ret = 0)
          => /\ fus'.low_pass = Filter(config.dmp_sample_rate,
                                       config.compass_time_constant,
                                       fus'.newMagYaw, fus'.newMagYaw)
             /\ fus'.high_pass = Filter(config.dmp_sample_rate,
                                        config.compass_time_constant,
                                        fus'.newDMPYaw, 0)
             /\ fus'.mag_spin_counter = 0
             /\ fus'.dmp_spin_counter = 0
      ]_vars

\* a logged window has a standard deviation above GYRO_CAL_THRESH
LoggedNoisy(dev) == \E k \in 1..3 : dev[k] > GYRO_CAL_THRESH

\* C37: in rc_mpu_calibrate_gyro_routine a noisy window is followed by
\* another window, and so is the first quiet window after a noisy one; the
\* routine leaves the loop with offsets only from a window that is quiet and
\* within GYRO_OFFSET_THRESH and that is the first window of the call or
\* comes directly after another quiet window.
C37_SettledWindowOnly ==
    [][ (c_pc = "collect" /\ c_log' # c_log)
          => /\ LoggedNoisy(c_log'.last[1])
                  => (c_pc' = "collect" /\ gyro_file' = gyro_file)
             /\ (c_log.last[1] # << >> /\ LoggedNoisy(c_log.last[1]))
                  => (c_pc' = "collect" /\ gyro_file' = gyro_file)
             /\ c_pc' = "ret"
                  => /\ ~LoggedNoisy(c_log'.last[1])
                     /\ \A k \in 1..3 :
                          /\ c_log'.last[2][k] <= GYRO_OFFSET_THRESH
                          /\ c_log'.last[2][k] >= -GYRO_OFFSET_THRESH
                     /\ c_log.last[1] = << >> \/ ~LoggedNoisy(c_log.last[1])
                     /\ c_log'.prev = c_log.last[1]
      ]_vars

\* a quiet window within bounds came after a noisy one and the routine is
\* back at COLLECT_DATA with nothing written
C37_Witness ==
    /\ c_pc = "collect"
    /\ c_kind = "gyro"
    /\ c_steady = 1
    /\ c_log.prev = << 10, 51, 10 >>
    /\ c_log.last = << << 50, 50, 50 >>, << 3, -2, 0 >> >>
    /\ gyro_file = << >>

\* C38: rc_mpu_calibrate_mag_routine, called with the bus lock free, every
\* I2C transfer succeeding and no sample all zero, takes exactly MagSamples
\* (200) samples before the ellipsoid fit; its sampling ends with fewer only
\* on a failed read or an all-zero sample.
C38_MagTakesAllSamples ==
    [][ /\ (c_pc = "sample" /\ c_pc' = "off")
             => /\ (c_lock0 = 0 /\ ~c_failed' /\ c_log'.stop # "zero")
                     => c_i' = MagSamples
                /\ c_i' < MagSamples => c_log'.stop \in { "fail", "zero" }
        /\ c_pc' = "fit" => c_i' = MagSamples
      ]_vars

\* C33: every return of rc_mpu_initialize, rc_mpu_initialize_dmp,
\* rc_mpu_calibrate_gyro_routine and rc_mpu_calibrate_mag_routine that comes
\* after the function's rc_i2c_lock_bus leaves the bus lock cleared, the
\* returns on a failed reset and on a failed FIFO read among them (stated
\* for returns made while the other thread is in no driver call).
C33_LockClearedOnReturn ==
    [][ /\ (c_pc \in { "reset", "collect", "who", "sample", "off", "fit" }
            /\ c_pc' = "ret" /\ l_pc \in { "idle", "ret" })
             => i2c_lock' = 0
        /\ (l_pc \in { "reset", "who", "configure", "start" }
            /\ l_pc' = "ret" /\ c_pc \in { "idle", "ret" })
             => i2c_lock' = 0
      ]_vars

\* C34: thread_running_flag is 1 only while the interrupt thread made by the
\* latest rc_mpu_initialize_dmp has not ended; once that thread has returned,
\* by whatever path, the flag is 0.
C34_RunningFlagMeansThread ==
    thread_running_flag = 1
      => (threads # << >> /\ threads[Len(threads)] # "exited")

\* C32: over any sequence of rc_mpu_initialize_dmp, rc_mpu_block_until_dmp_data,
\* rc_mpu_block_until_tap and rc_mpu_power_off calls, no mutex or condition
\* variable is destroyed while a thread holds it or waits on it, and none is
\* locked or waited on once it has been destroyed.
C32_NoUseOfDestroyed ==
    destroyed
      => /\ read_mutex = "free"
         /\ tap_mutex = "free"
         /\ w_pc # "wait"
         /\ t_pc # "wait"

-----------------------------------------------------------------------------
(* The handler thread beside a thread in each blocking call, scheduled     *)
(* fairly: every thread that can take a step takes one, and a thread       *)
(* blocked in pthread_mutex_lock (or taking the mutex again inside         *)
(* pthread_cond_wait) gets the mutex when it is released again and again.  *)
(* The callbacks return and call nothing of the driver.                    *)

\* the handler from __read_dmp_fifo to the second broadcast, with the
\* record left out: the read succeeds or fails, the packet has the tap bit
\* or not; on the first interrupt and after a failed read nothing is
\* announced, otherwise the data callback returns, read_condition is
\* broadcast, and on a tap the tap callback returns and tap_condition is
\* broadcast
KService ==
    /\ h_pc = "read"
    /\ i2c_lock' = 0
    /\ h_first_run' = 0
    /\ \E ok \in BOOLEAN, tap \in BOOLEAN, reach \in BroadcastOutcomes :
         LET announced == ~SuppressFirst(h_first_run) /\ ok
         IN  /\ last_read_successful' = IF ok THEN 1 ELSE 0
             /\ IF announced /\ reach /\ w_pc = "wait"
                THEN w_pc' = "woken" /\ w_tick' = h_tick
                ELSE UNCHANGED << w_pc, w_tick >>
             /\ IF announced /\ tap /\ reach /\ t_pc = "wait"
                THEN t_pc' = "woken"
                ELSE UNCHANGED t_pc
    /\ h_pc' = "unlock_read"
    /\ UNCHANGED << ioVars, buildVars, lifeVars, calVars, fifoVars,
                    imu_shutdown_flag, thread_running_flag, cbVars, syncVars,
                    h_mag_div_step, h_tick, h_mag, tick_log, w_ret, w_snap,
                    t_ret, pVars >>

\* the handler thread with KService for the steps from the read to the
\* broadcasts
KHandler ==
    \/ HStartFail \/ HStart \/ HLoop \/ HPollEdge \/ HPollTimeout \/ HCheck
    \/ HLockBus \/ HLockRead \/ HLockTap \/ KService \/ HUnlockRead
    \/ HUnlockTap \/ HMagAfter \/ HExitLock \/ HExitBroadcast \/ HExitUnlock
    \/ HExitFlag

\* the handler thread, a thread in rc_mpu_block_until_dmp_data, a thread in
\* rc_mpu_block_until_tap and a thread that sets imu_shutdown_flag, the
\* first statement of rc_mpu_power_off, so that the handler leaves its loop;
\* the mutexes stay as they were initialised
NextLock == KHandler \/ Waiter \/ TapWaiter \/ PSetFlag

\* every thread goes on running, and a thread in pthread_mutex_lock or
\* waking in pthread_cond_wait is not passed over for ever when the mutex
\* is free again and again

\* the state after rc_mpu_initialize_dmp with the magnetometer not enabled
InitLock == Init /\ ~config.enable_magnetometer

SpecLock ==
    /\ InitLock
    /\ [][NextLock]_vars
    /\ WF_vars(KHandler) /\ WF_vars(Waiter) /\ WF_vars(TapWaiter)
    /\ SF_vars(HLockRead) /\ SF_vars(HLockTap) /\ SF_vars(HExitLock)
    /\ SF_vars(WLock) /\ SF_vars(WWake)
    /\ SF_vars(TLock) /\ SF_vars(TWake)

====
